---- MODULE Spec2Model ----
(***************************************************************************)
(* Snapshot backup / restore engine of monitor_bot/backup_restore.py.      *)
(*                                                                         *)
(* A path is the sequence of its components: <<"etc","openvpn">> is        *)
(* /etc/openvpn.  A raw path may hold "..", "." and "" components; the     *)
(* filesystem is keyed by normalized paths.  File contents are small       *)
(* positive integers; an archive file holds -i, where i is the index of    *)
(* what it contains in `tars`.                                             *)
(***************************************************************************)
EXTENDS Integers, Sequences, FiniteSets, TLC

(* ---------------- bounds of the model ---------------- *)

\* distinct contents an ordinary file may hold
MaxContent == 2
\* distinct values of the one-second clock that names archives and staging
MaxTime == 2
\* top-level operations (backup, restore, delete, outside change) in a run
MaxOps == 3

(* ---------------- configuration: backup_restore.py 25-51 ---------------- *)

BACKUP_ROOTS == << <<"etc", "openvpn">>, <<"etc", "iptables">>, <<"root">> >>

BACKUP_OUTPUT_DIR == <<"root", "backups">>

MANIFEST_NAME == "manifest.json"

ARCHIVE_PREFIX == "openvpn_full_backup"

EXCLUDE_PATHS ==
    { <<"root", ".bash_history">>, <<"root", ".cache">>, <<"root", "backups", ".tmp">> }

EXCLUDE_SUFFIXES == {".pyc", ".log", ".swp"}

STRICT_PURGE == TRUE

(* ---------------- strings and paths ---------------- *)

\* characters of the model's file names, in ASCII order
Alphabet == "./0123456789ABCDEFGHIJKLMNOPQRSTUVWXYZ_abcdefghijklmnopqrstuvwxyz"

CharCode(c) == CHOOSE i \in 1..Len(Alphabet) : SubSeq(Alphabet, i, i) = c

RECURSIVE StrLessFrom(_, _, _)
StrLessFrom(s, t, i) ==
    IF i > Len(t) THEN FALSE
    ELSE IF i > Len(s) THEN TRUE
    ELSE IF SubSeq(s, i, i) = SubSeq(t, i, i) THEN StrLessFrom(s, t, i + 1)
    ELSE CharCode(SubSeq(s, i, i)) < CharCode(SubSeq(t, i, i))

\* Python's s < t on str
StrLess(s, t) == StrLessFrom(s, t, 1)

\* str.endswith
EndsWith(s, suf) ==
    Len(s) >= Len(suf) /\ SubSeq(s, Len(s) - Len(suf) + 1, Len(s)) = suf

RECURSIVE PathStr(_)
\* the path as the string the program handles
PathStr(p) ==
    IF p = <<>> THEN "" ELSE PathStr(SubSeq(p, 1, Len(p) - 1)) \o "/" \o p[Len(p)]

\* one component c after the normalised front: "" and "." are dropped, ".."
\* takes the last component of the front away
norm_component(front, c) ==
    IF c = "" \/ c = "." THEN front
    ELSE IF c = ".."
         THEN (IF front = <<>> THEN <<>> ELSE SubSeq(front, 1, Len(front) - 1))
         ELSE Append(front, c)

RECURSIVE normpath(_)
\* os.path.normpath of an absolute path: drops "" and ".", resolves ".." lexically
normpath(p) ==
    IF p = <<>> THEN <<>>
    ELSE norm_component(normpath(SubSeq(p, 1, Len(p) - 1)), p[Len(p)])

\* os.path.join(base, name)
join(base, name) == Append(base, name)

dirname(p) == SubSeq(p, 1, Len(p) - 1)

basename(p) == p[Len(p)]

\* a is b or an ancestor of b, component by component
IsPrefix(a, b) == Len(a) <= Len(b) /\ SubSeq(b, 1, Len(a)) = a

\* os.path.commonpath([p, r]): components split on "/", "" and "." dropped,
\* ".." kept as an ordinary component; the longest common prefix
commonpath(p, r) ==
    LET keep(c) == c # "" /\ c # "."
        a == SelectSeq(p, keep)
        b == SelectSeq(r, keep)
        n == CHOOSE k \in 0..Len(a) :
                /\ k <= Len(b)
                /\ SubSeq(a, 1, k) = SubSeq(b, 1, k)
                /\ \A j \in (k + 1)..Len(a) :
                      j > Len(b) \/ SubSeq(a, 1, j) # SubSeq(b, 1, j)
    IN  SubSeq(a, 1, n)

\* is_excluded: a literal excluded path after normpath, or an excluded suffix
is_excluded(p) ==
    LET norm == normpath(p)
    IN  \/ norm \in EXCLUDE_PATHS
        \/ \E suf \in EXCLUDE_SUFFIXES : EndsWith(PathStr(norm), suf)

RECURSIVE SortPaths(_)
\* sorted(S) for a set of paths: ascending order of the path strings
SortPaths(S) ==
    IF S = {} THEN <<>>
    ELSE LET m == CHOOSE x \in S :
                    \A y \in S \ {x} : StrLess(PathStr(x), PathStr(y))
         IN  <<m>> \o SortPaths(S \ {m})

\* the list in the order it was given
Unsorted(list) == list

RECURSIVE SortByLenDesc(_)
\* sorted(list, key=len, reverse=True): stable, so equal lengths keep their order
SortByLenDesc(list) ==
    IF list = <<>> THEN <<>>
    ELSE LET n == Len(list)
             i == CHOOSE k \in 1..n :
                    /\ \A j \in 1..n : Len(PathStr(list[j])) <= Len(PathStr(list[k]))
                    /\ \A j \in 1..(k - 1) : Len(PathStr(list[j])) < Len(PathStr(list[k]))
         IN  <<list[i]>> \o SortByLenDesc(SubSeq(list, 1, i - 1) \o SubSeq(list, i + 1, n))

Range(seq) == {seq[i] : i \in 1..Len(seq)}

(* ---------------- the filesystem ---------------- *)

OVPN == <<"etc", "openvpn">>

\* an untracked chain A/B/C/file under the first root
ChainA == <<"etc", "openvpn", "A">>
ChainB == <<"etc", "openvpn", "A", "B">>
ChainC == <<"etc", "openvpn", "A", "B", "C">>
ChainF == <<"etc", "openvpn", "A", "B", "C", "file">>
\* where shutil.copy2 puts a file named A when /etc/openvpn/A is a directory
ShadowA == <<"etc", "openvpn", "A", "A">>
\* crl_dst of regenerate_crl_if_possible
CrlDst == <<"etc", "openvpn", "crl.pem">>
\* an excluded path, and where copy2 puts .cache when it is a directory
Cache == <<"root", ".cache">>
ShadowCache == <<"root", ".cache", ".cache">>
\* a directory outside every configured root
Other == <<"etc", "other">>
\* a file whose name ends in an excluded suffix
LogFile == <<"etc", "openvpn", "x.log">>
\* a regular file outside every configured root, which a symbolic link under a
\* root may point at
LinkTarget == <<"etc", "other", "t">>
\* a name under the first root that may be a symbolic link to the directory
\* /etc/other, and the path of /etc/other/t through that link
LinkDir == <<"etc", "openvpn", "L">>
Through == <<"etc", "openvpn", "L", "t">>

ArchiveName(ts) == ARCHIVE_PREFIX \o "_" \o ToString(ts) \o ".tar.gz"

\* archive_path of create_backup
ArchivePath(ts) == join(BACKUP_OUTPUT_DIR, ArchiveName(ts))

\* dest of create_backup_in_root_excluding_archives
RootArchive(ts) == join(<<"root">>, ArchiveName(ts))

Times == 1..MaxTime

UserNodes == {ChainA, ChainB, ChainC, ChainF, Cache}

Nodes ==
    { <<>>, <<"etc">>, <<"root">>, OVPN, <<"etc", "iptables">>, Other,
      ShadowA, CrlDst, ShadowCache, BACKUP_OUTPUT_DIR, LogFile, LinkTarget,
      LinkDir, Through }
    \cup UserNodes
    \cup {ArchivePath(t) : t \in Times} \cup {RootArchive(t) : t \in Times}

NoNode == [kind |-> "none", data |-> 0]
DirNode == [kind |-> "dir", data |-> 0]
FileNode(d) == [kind |-> "file", data |-> d]
\* a symbolic link to LinkTarget
LinkNode == [kind |-> "link", data |-> 0]

\* a symbolic link to the directory /etc/other
DirLinkNode == [kind |-> "dirlink", data |-> 0]

\* os.path.islink
lstat_link(f, n) == n \in Nodes /\ f[n].kind \in {"link", "dirlink"}

islink(f, p) == lstat_link(f, normpath(p))

\* the node the normalised path n leads to
stat(f, n) ==
    IF n \notin Nodes THEN NoNode
    ELSE IF IsPrefix(LinkDir, n) /\ f[LinkDir].kind = "dirlink"
    THEN f[Other \o SubSeq(n, Len(LinkDir) + 1, Len(n))]
    ELSE IF f[n].kind = "link" THEN f[LinkTarget] ELSE f[n]

\* the node a raw path leads to, as os.stat sees it: symbolic links are followed
Lookup(f, p) == stat(f, normpath(p))

exists(f, p) == Lookup(f, p).kind # "none"
isfile(f, p) == Lookup(f, p).kind = "file"
isdir(f, p) == Lookup(f, p).kind = "dir"

\* os.remove of a file
remove(f, p) == [f EXCEPT ![normpath(p)] = NoNode]

\* shutil.rmtree(p, ignore_errors=True)
rmtree(f, p) == [n \in Nodes |-> IF IsPrefix(normpath(p), n) THEN NoNode ELSE f[n]]

\* os.makedirs(p, exist_ok=True): raises when p or an ancestor is a file
makedirs(f, p) ==
    LET q == normpath(p)
        blocked == \E k \in 0..Len(q) : isfile(f, SubSeq(q, 1, k))
    IN  IF blocked THEN [ok |-> FALSE, fs |-> f]
        ELSE [ok |-> TRUE,
              fs |-> [n \in Nodes |-> IF IsPrefix(n, q) THEN DirNode ELSE f[n]]]

\* where shutil.copy2(s, d) writes: into d when d is a directory
copy_target(f, d) == IF isdir(f, d) THEN join(d, basename(d)) ELSE d

\* sha256_file: the digest of a file's content
sha256(data) == <<"sha256", data>>

\* the walk from root (real is root normalised) reaches the regular file n:
\* no directory on the way and no file name is excluded, and unless links are
\* followed no directory on the way is a symbolic link
walk_reaches(f, root, real, n, follow) ==
    /\ IsPrefix(real, n) /\ n # real
    /\ stat(f, n).kind = "file"
    /\ \A k \in (Len(real) + 1)..Len(n) :
          ~is_excluded(root \o SubSeq(n, Len(real) + 1, k))
    /\ follow \/ \A k \in (Len(real) + 1)..(Len(n) - 1) : ~lstat_link(f, SubSeq(n, 1, k))

\* os.walk(root, followlinks=follow) with the filters of iter_files: the files
\* reached, as root joined with the relative path, in order
os_walk(f, root, real, follow) ==
    IF ~exists(f, root) THEN <<>>
    ELSE SortPaths({root \o SubSeq(n, Len(real) + 1, Len(n)) :
                        n \in {m \in Nodes : walk_reaches(f, root, real, m, follow)}})

\* iter_files with os.walk(root, followlinks=True)
iter_files_following(f, root) == os_walk(f, root, normpath(root), TRUE)

\* iter_files(root): the regular files os.walk reaches from root, as root joined
\* with the relative path, pruning excluded directories and skipping excluded
\* files; with followlinks=False a symbolic link to a directory is not entered
iter_files(f, root) == os_walk(f, root, normpath(root), FALSE)

\* no manifest
NoManifest == [version |-> 0, roots |-> <<>>, files |-> <<>>]

RECURSIVE FilesMeta(_, _)
\* the loop of build_manifest over the roots: one record per file found
FilesMeta(f, roots) ==
    IF roots = <<>> THEN <<>>
    ELSE LET flist == iter_files(f, normpath(Head(roots)))
         IN  [i \in 1..Len(flist) |->
                 [path |-> flist[i], sha256 |-> sha256(Lookup(f, flist[i]).data)]]
             \o FilesMeta(f, Tail(roots))

build_manifest(f, roots) == [version |-> 1, roots |-> roots, files |-> FilesMeta(f, roots)]

\* build_manifest while another process deletes the file p, found by the walk
\* of the root numbered i: either before line 104 stats it (FileNotFoundError,
\* caught on line 105, the file is passed over), or after the stat and before
\* line 110 opens it (sha256_file raises, outside the try).  The roots after i
\* are walked when the file is gone.
build_manifest_racing(f, roots, i, p, at) ==
    LET flist == iter_files(f, normpath(roots[i]))
        kept  == SelectSeq(flist, LAMBDA q : q # p)
        here  == [k \in 1..Len(kept) |->
                    [path |-> kept[k], sha256 |-> sha256(Lookup(f, kept[k]).data)]]
    IN  IF at = "hash" THEN [raised |-> TRUE, manifest |-> NoManifest]
        ELSE [raised |-> FALSE,
              manifest |-> [version |-> 1, roots |-> roots,
                            files |-> FilesMeta(f, SubSeq(roots, 1, i - 1)) \o here
                                      \o FilesMeta(remove(f, p),
                                                   SubSeq(roots, i + 1, Len(roots)))]]

RECURSIVE IterAll(_, _)
IterAll(f, roots) ==
    IF roots = <<>> THEN {} ELSE Range(iter_files(f, Head(roots))) \cup IterAll(f, Tail(roots))

\* recorded[path]: the last record of the path in manifest["files"]
Recorded(manifest, path) ==
    LET idx == {i \in 1..Len(manifest.files) : manifest.files[i].path = path}
    IN  manifest.files[CHOOSE i \in idx : \A j \in idx : j <= i]

\* compute_diff where a digest failure leaves the path out of changed
compute_diff_skipping(manifest, f, failing) ==
    LET recorded_set == {manifest.files[i].path : i \in 1..Len(manifest.files)}
        current_set  == IterAll(f, manifest.roots)
    IN  [extra   |-> SortPaths(current_set \ recorded_set),
         missing |-> SortPaths(recorded_set \ current_set),
         changed |-> SortPaths({p \in recorded_set \cap current_set :
                        /\ normpath(p) \notin failing
                        /\ sha256(Lookup(f, p).data) # Recorded(manifest, p).sha256})]

\* compute_diff with changed filled by a loop over manifest["files"], unsorted
compute_diff_unsorted(manifest, f, failing) ==
    LET recorded_set == {manifest.files[i].path : i \in 1..Len(manifest.files)}
        current_set  == IterAll(f, manifest.roots)
        differs(p)   == /\ p \in current_set
                        /\ \/ normpath(p) \in failing
                           \/ sha256(Lookup(f, p).data) # Recorded(manifest, p).sha256
    IN  [extra   |-> SortPaths(current_set \ recorded_set),
         missing |-> SortPaths(recorded_set \ current_set),
         changed |-> SelectSeq([i \in 1..Len(manifest.files) |-> manifest.files[i].path],
                               differs)]

\* compute_diff; failing holds the files whose sha256_file raises, and line 230
\* counts them as changed
compute_diff(manifest, f, failing) ==
    LET recorded_set == {manifest.files[i].path : i \in 1..Len(manifest.files)}
        current_set  == IterAll(f, manifest.roots)
    IN  [extra   |-> SortPaths(current_set \ recorded_set),
         missing |-> SortPaths(recorded_set \ current_set),
         changed |-> SortPaths({p \in recorded_set \cap current_set :
                        \/ normpath(p) \in failing
                        \/ sha256(Lookup(f, p).data) # Recorded(manifest, p).sha256})]

(* ---------------- archives ---------------- *)

EmptyTree == [n \in Nodes |-> NoNode]

\* root.lstrip('/'): the leading empty components go
RECURSIVE lstrip_slash(_)
lstrip_slash(p) == IF p # <<>> /\ Head(p) = "" THEN lstrip_slash(Tail(p)) ELSE p

\* where the entry of root's subtree at rel lies below the archive's top
ArcKey(root, rel) == normpath(lstrip_slash(root) \o rel)

\* tar.add(root, arcname=root.lstrip('/')) for each existing root; tarfile leaves
\* out the archive it is writing
TarTree(f, roots, archive_path) ==
    [n \in Nodes |->
        IF /\ n # archive_path
           /\ \E i \in 1..Len(roots) :
                 exists(f, roots[i]) /\ IsPrefix(ArcKey(roots[i], <<>>), n)
        THEN f[n] ELSE NoNode]

\* create_backup at second ts; id numbers the bytes written.  The manifest is
\* built before the archive file is opened for writing.
create_backup(f, ts, id) ==
    LET f1 == makedirs(f, BACKUP_OUTPUT_DIR).fs
        archive_path == ArchivePath(ts)
        manifest == build_manifest(f1, BACKUP_ROOTS)
        f2 == [f1 EXCEPT ![archive_path] = FileNode(0 - id)]
    IN  [fs   |-> f2,
         path |-> archive_path,
         tar  |-> [readable |-> TRUE, hasManifest |-> TRUE, manifest |-> manifest,
                   tree |-> TarTree(f2, BACKUP_ROOTS, archive_path), outside |-> {}]]

\* glob("/root/*.tar.gz") and glob("/root/*.tgz")
RootArchiveGlob(f) ==
    {n \in Nodes : /\ Len(n) = 2 /\ n[1] = "root" /\ exists(f, n)
                   /\ (EndsWith(n[2], ".tar.gz") \/ EndsWith(n[2], ".tgz"))}

\* create_backup_in_root_excluding_archives: hide /root's archives and
\* /root/backups, create the backup, move it to /root, put the hidden things back
\* (a hidden thing whose place is taken again is dropped)
create_backup_in_root_excluding_archives(f, ts, id) ==
    LET hidden  == RootArchiveGlob(f)
        hideDir == isdir(f, BACKUP_OUTPUT_DIR)
        isHidden(n) == n \in hidden \/ (hideDir /\ IsPrefix(BACKUP_OUTPUT_DIR, n))
        fHidden == [n \in Nodes |-> IF isHidden(n) THEN NoNode ELSE f[n]]
        made    == create_backup(fHidden, ts, id)
        dest    == RootArchive(ts)
        fMoved  == [made.fs EXCEPT ![dest] = made.fs[made.path], ![made.path] = NoNode]
        src(n)  == IF n \in hidden THEN n ELSE BACKUP_OUTPUT_DIR
    IN  [fs  |-> [n \in Nodes |->
                    IF isHidden(n) /\ ~exists(fMoved, src(n)) THEN f[n] ELSE fMoved[n]],
         tar |-> made.tar,
         path |-> dest]

\* tar.extractall(extract_to): the archive's entries land on what is there
extractall(tree, into) ==
    [n \in Nodes |-> IF tree[n].kind # "none" THEN tree[n] ELSE into[n]]

(* ---------------- state ---------------- *)

VARIABLES
    fs,         \* the live filesystem: Nodes -> node
    tars,       \* tars[i]: what the archive bytes numbered i hold
    clock,      \* the last second the wall clock was read
    ops,        \* top-level operations so far
    pc,         \* where apply_restore stands
    rPath,      \* archive_path
    rDry,       \* dry_run
    upload,     \* what an archive outside the roots holds
    staging,    \* the staging directory of this second
    manifest,   \* the manifest apply_restore loaded
    report,     \* the report under construction
    purgeList,  \* what purge_extras has still to process
    outcome,    \* how the last apply_restore ended
    preFs,      \* the live filesystem when apply_restore was called
    touched,    \* live paths this call deleted, created or wrote
    purgeLog,   \* the paths purge_extras processed, in order
    delFailed,  \* extra paths whose deletion failed
    copyFailed, \* destinations whose copy failed
    tried,      \* external commands this call attempted, and which of them failed
    rootsArg,   \* the roots build_manifest was called with
    unreadable, \* live paths whose content cannot be read
    pki,        \* the CA directory: what index.txt and serial hold, which files exist
    text,       \* what manifest.json holds
    loaded,     \* what json.load made of manifest.json
    crlRet,     \* what regenerate_crl_if_possible returned and did
    user_data,  \* context.user_data: the bot's dialog with the administrator
    ovpn,       \* the clients that have a .ovpn file in KEYS_DIR
    keyRun,     \* the last answer to the quantity question: what it led to
    loopSt      \* the event loop of the bot: its coroutines and who is running

\* the variables of the studies of single functions
botVars == <<user_data, ovpn, keyRun, loopSt>>

unitVars == <<rootsArg, unreadable, pki, text, loaded, crlRet, botVars>>

vars == <<fs, tars, clock, ops, pc, rPath, rDry, upload, staging, manifest, report,
          purgeList, outcome, preFs, touched, purgeLog, delFailed,
          copyFailed, tried, unitVars>>

Contents == 1..MaxContent

\* the shapes of the chain: A is absent, a file, a symbolic link or a directory;
\* B and C are directories; "file" is a file
ChainCfgs ==
    LET none == [n \in {ChainA, ChainB, ChainC, ChainF} |-> NoNode]
    IN  {none}
        \cup {[none EXCEPT ![ChainA] = FileNode(d)] : d \in Contents}
        \cup {[none EXCEPT ![ChainA] = LinkNode]}
        \cup {[none EXCEPT ![ChainA] = DirNode]}
        \cup {[none EXCEPT ![ChainA] = DirNode, ![ChainB] = DirNode]}
        \cup {[none EXCEPT ![ChainA] = DirNode, ![ChainB] = DirNode, ![ChainC] = DirNode]}
        \cup {[none EXCEPT ![ChainA] = DirNode, ![ChainB] = DirNode, ![ChainC] = DirNode,
                           ![ChainF] = FileNode(d)] : d \in Contents}

\* the excluded path /root/.cache is absent, a file or a directory
CacheCfgs == {NoNode, DirNode, FileNode(1)}

\* the user files: a chain shape and a .cache shape
UserCfgs ==
    {[n \in UserNodes |-> IF n = Cache THEN k ELSE c[n]] : c \in ChainCfgs, k \in CacheCfgs}

BaseDirs == {<<>>, <<"etc">>, <<"root">>, OVPN, Other}

\* reused: the directory was there before line 301 made it
NoStaging == [exists |-> FALSE, hasManifest |-> FALSE, manifest |-> NoManifest,
              tree |-> EmptyTree, reused |-> FALSE]

NoReport == [dry_run |-> FALSE, diff |-> [extra |-> <<>>, missing |-> <<>>, changed |-> <<>>],
             purge_mode |-> "", crl_action |-> "None", service_restart |-> "None",
             errors |-> <<>>]

NoUpload == [readable |-> FALSE, hasManifest |-> FALSE, manifest |-> NoManifest,
             tree |-> EmptyTree, outside |-> {}]

\* a value that may be None: <<>> is None, <<v>> is v
None == <<>>

\* no CA directory: neither index.txt nor serial, no key, no tool, no list
NoPki == [dir |-> FALSE, index |-> None, serial |-> None, ca_key |-> FALSE,
          easyrsa |-> FALSE, crl |-> FALSE]

NoCrlRet == [raised |-> FALSE, ok |-> FALSE, msg |-> "", did |-> <<>>]

\* context.user_data with no dialog going on
NoUserData == [await_key_name |-> FALSE, await_key_expiry |-> FALSE,
               await_key_quantity |-> FALSE, new_key_name |-> None, new_key_expiry |-> None]

NoKeyRun == [entered |-> None, qty |-> 0, names |-> <<>>, collisions |-> <<>>,
             invoked |-> <<>>, created |-> <<>>, errors |-> <<>>]

\* the bot's dialog is not under study
\* the event loop before any update: nothing waits, no handler runs, the
\* monitoring task sleeps
NoLoop == [pending |-> <<>>, cur |-> <<>>, hpc |-> "idle", mpc |-> "sleep",
           holder |-> "none", intruded |-> FALSE]

NoBot ==
    /\ user_data = NoUserData
    /\ ovpn = {}
    /\ keyRun = NoKeyRun
    /\ loopSt = NoLoop

\* no single function is under study
NoUnit ==
    /\ rootsArg = <<>>
    /\ unreadable = {}
    /\ pki = NoPki
    /\ text = <<>>
    /\ loaded = <<>>
    /\ crlRet = NoCrlRet
    /\ NoBot

\* the live filesystem with the user files as c has them
LiveFs(c) ==
    [n \in Nodes |-> IF n \in UserNodes THEN c[n]
                     ELSE IF n \in BaseDirs THEN DirNode
                     ELSE IF n = LinkTarget THEN FileNode(1) ELSE NoNode]

Init ==
    /\ \E c \in UserCfgs : fs = LiveFs(c)
    /\ tars = <<>>
    /\ clock = 1
    /\ ops = 0
    /\ pc = "idle"
    /\ rPath = <<>>
    /\ rDry = TRUE
    /\ upload = NoUpload
    /\ staging = NoStaging
    /\ manifest = NoManifest
    /\ report = NoReport
    /\ purgeList = <<>>
    /\ outcome = "none"
    /\ preFs = fs
    /\ touched = {}
    /\ purgeLog = <<>>
    /\ delFailed = {}
    /\ copyFailed = {}
    /\ tried = {}
    /\ NoUnit

Idle == pc = "idle" /\ ops < MaxOps

\* what is known of the last apply_restore is forgotten when an operation begins
ResetCall ==
    /\ rPath' = <<>>
    /\ rDry' = TRUE
    /\ upload' = NoUpload
    /\ staging' = NoStaging
    /\ manifest' = NoManifest
    /\ report' = NoReport
    /\ purgeList' = <<>>
    /\ outcome' = "none"
    /\ preFs' = fs'
    /\ touched' = {}
    /\ purgeLog' = <<>>
    /\ delFailed' = {}
    /\ copyFailed' = {}
    /\ tried' = {}

(* ---------------- operations around the restore ---------------- *)

\* the bot's backup (cmd_backup_now, perform_backup_and_send)
Backup ==
    /\ UNCHANGED unitVars
    /\ Idle
    /\ \E ts \in clock..MaxTime :
          LET r == create_backup_in_root_excluding_archives(fs, ts, Len(tars) + 1)
          IN  /\ fs' = r.fs
              /\ tars' = Append(tars, r.tar)
              /\ clock' = ts
    /\ ops' = ops + 1
    /\ pc' = "idle"
    /\ ResetCall

\* backup_delete_apply: the operator deletes /root/<fname>
DeleteArchive ==
    /\ UNCHANGED unitVars
    /\ Idle
    /\ \E t \in Times :
          LET full == join(<<"root">>, ArchiveName(t))
          IN  /\ exists(fs, full)
              /\ fs' = remove(fs, full)
    /\ ops' = ops + 1
    /\ pc' = "idle"
    /\ UNCHANGED <<tars, clock>>
    /\ ResetCall

\* between two operations something else rewrites the chain or the excluded path
EnvChange ==
    /\ UNCHANGED unitVars
    /\ Idle
    /\ \/ \E c \in ChainCfgs :
             fs' = [n \in Nodes |-> IF n \in DOMAIN c THEN c[n]
                                    ELSE IF n = ShadowA THEN NoNode ELSE fs[n]]
       \/ \E k \in CacheCfgs :
             fs' = [fs EXCEPT ![Cache] = k, ![ShadowCache] = NoNode]
    /\ fs' # fs
    /\ ops' = ops + 1
    /\ pc' = "idle"
    /\ UNCHANGED <<tars, clock>>
    /\ ResetCall

(* ---------------- apply_restore ---------------- *)

\* an archive given by absolute path, outside the roots
ForeignPath == <<"tmp", "upload.tar.gz">>

\* what such a file may hold: no tar at all; a tar without manifest.json; a tar
\* with the manifest of an empty /etc/openvpn and a member named
\* ../../etc/openvpn/A, which leads out of the staging directory
ForeignArchives ==
    { NoUpload,
      [readable |-> TRUE, hasManifest |-> FALSE, manifest |-> NoManifest,
       tree |-> [EmptyTree EXCEPT ![OVPN] = DirNode, ![ChainA] = FileNode(1)],
       outside |-> {}],
      [readable |-> TRUE, hasManifest |-> TRUE,
       manifest |-> [version |-> 1, roots |-> <<OVPN>>, files |-> <<>>],
       tree |-> [EmptyTree EXCEPT ![OVPN] = DirNode],
       outside |-> {[path |-> ChainA, data |-> 1]}] }

\* what may lie at the staging name before the call: nothing, or a directory
\* left there with a manifest.json of an empty snapshot
Leftovers ==
    { NoStaging,
      [exists |-> TRUE, hasManifest |-> TRUE, tree |-> EmptyTree, reused |-> FALSE,
       manifest |-> [version |-> 1, roots |-> BACKUP_ROOTS, files |-> <<>>]] }

\* locate_backup(fname): BACKUP_OUTPUT_DIR/fname, then /root/fname
locate_backup(f, fname) ==
    IF isfile(f, join(BACKUP_OUTPUT_DIR, fname)) THEN join(BACKUP_OUTPUT_DIR, fname)
    ELSE IF isfile(f, join(<<"root">>, fname)) THEN join(<<"root">>, fname)
    ELSE <<>>

\* files the outside world may have made immutable: deleting or overwriting
\* one of them may fail
Failable == {ChainA, ChainF}

\* the staging directory left as it is
leave_staging(st) == st

\* lines 335-336: finally: shutil.rmtree(staging_dir, ignore_errors=True)
cleanup(st) == NoStaging

\* what the file at path holds when it is read as an archive
ArchiveAt(f, path, up) ==
    IF path = ForeignPath THEN up
    ELSE IF isfile(f, path) /\ f[path].data < 0 THEN tars[0 - f[path].data]
    ELSE NoUpload

\* tar.extractall for the members whose names lead out of extract_to: a tarfile
\* that filters them raises (strict); one that does not writes them where they
\* lead, and raises when a directory is in the way
extract_outside(f, members, strict) ==
    IF members = {} THEN [ok |-> TRUE, fs |-> f]
    ELSE IF strict \/ \E m \in members : isdir(f, m.path) THEN [ok |-> FALSE, fs |-> f]
    ELSE [ok |-> TRUE,
          fs |-> [n \in Nodes |->
                    IF \E m \in members : m.path = n
                    THEN FileNode((CHOOSE m \in members : m.path = n).data)
                    ELSE f[n]]]

\* load_manifest_from_archive: tarfile.open, extractall, then the manifest check
load_manifest_from_archive(f, tar, st, strict) ==
    LET out    == extract_outside(f, tar.outside, strict)
        merged == [exists |-> TRUE,
                   hasManifest |-> tar.hasManifest \/ st.hasManifest,
                   manifest |-> IF tar.hasManifest THEN tar.manifest ELSE st.manifest,
                   tree |-> extractall(tar.tree, st.tree),
                   reused |-> st.reused]
    IN  IF ~tar.readable \/ ~out.ok THEN [ok |-> FALSE, staging |-> st, fs |-> f]
        ELSE [ok |-> merged.hasManifest, staging |-> merged, fs |-> out.fs]

\* lines 299-303 for the archive at path: the staging directory, named after
\* the second of the call, is made by makedirs(exist_ok=True), or is there
\* already as left, and the archive is loaded into it; an exception leaves
\* through the finally clause
Load(path, up, left, strict) ==
    LET r == load_manifest_from_archive(fs, ArchiveAt(fs, path, up),
                                        [left EXCEPT !.exists = TRUE,
                                                     !.reused = left.exists], strict)
    IN  /\ rPath' = path
        /\ upload' = up
        /\ fs' = r.fs
        /\ touched' = {n \in Nodes : r.fs[n] # fs[n]}
        /\ IF r.ok
           THEN /\ staging' = r.staging
                /\ manifest' = r.staging.manifest
                /\ outcome' = "none"
                /\ pc' = "diff"
           ELSE /\ staging' = cleanup(r.staging)
                /\ manifest' = NoManifest
                /\ outcome' = "raised"
                /\ pc' = "done"

\* restore_dry_run and restore_apply: the archive is located and apply_restore
\* begins; apply_restore may also be called with the path of any other file
StartRestore ==
    /\ UNCHANGED unitVars
    /\ Idle
    /\ \E dry \in BOOLEAN, left \in Leftovers, strict \in BOOLEAN :
          /\ rDry' = dry
          /\ \/ \E t \in Times :
                   /\ locate_backup(fs, ArchiveName(t)) # <<>>
                   /\ Load(locate_backup(fs, ArchiveName(t)), NoUpload, left, strict)
             \/ \E up \in ForeignArchives : Load(ForeignPath, up, left, strict)
    /\ ops' = ops + 1
    /\ report' = NoReport
    /\ purgeList' = <<>>
    /\ preFs' = fs
    /\ purgeLog' = <<>>
    /\ delFailed' = {}
    /\ copyFailed' = {}
    /\ tried' = {}
    /\ UNCHANGED <<tars, clock>>

\* a report that holds the diff only when the run is a dry run
report_of_dry_run_only(dry, diff) ==
    [dry_run |-> dry, diff |-> IF dry THEN diff ELSE NoReport.diff,
     purge_mode |-> IF STRICT_PURGE THEN "strict" ELSE "none",
     crl_action |-> "None", service_restart |-> "None", errors |-> <<>>]

\* lines 306-314: the report, made before the dry-run return
restore_report(dry, diff) ==
    [dry_run |-> dry, diff |-> diff,
     purge_mode |-> IF STRICT_PURGE THEN "strict" ELSE "none",
     crl_action |-> "None", service_restart |-> "None", errors |-> <<>>]

\* lines 304-320: compute_diff, the report, the dry-run return, the purge list
Diff ==
    /\ UNCHANGED unitVars
    /\ pc = "diff"
    /\ LET diff == compute_diff(manifest, fs, unreadable)
       IN  /\ report' = restore_report(rDry, diff)
           /\ IF rDry
              THEN /\ outcome' = "returned" /\ pc' = "done"
                   /\ staging' = cleanup(staging)
                   /\ UNCHANGED purgeList
              ELSE IF STRICT_PURGE /\ diff.extra # <<>>
              THEN /\ purgeList' = SortByLenDesc(diff.extra) /\ pc' = "purge"
                   /\ UNCHANGED <<outcome, staging>>
              ELSE /\ pc' = "copy"
                   /\ UNCHANGED <<outcome, staging, purgeList>>
    /\ UNCHANGED <<fs, tars, clock, ops, rPath, rDry, upload, manifest, preFs,
                   touched, purgeLog, delFailed, copyFailed, tried>>

\* line 249: inside_root
inside_root(path) ==
    \E i \in 1..Len(BACKUP_ROOTS) : commonpath(path, BACKUP_ROOTS[i]) = BACKUP_ROOTS[i]

\* the body of purge_extras' loop for one path
purge_one(f, path, fails) ==
    IF ~exists(f, path) THEN [fs |-> f, act |-> "skipped"]
    ELSE IF isfile(f, path) \/ islink(f, path)
    THEN (IF fails THEN [fs |-> f, act |-> "failed"]
          ELSE [fs |-> remove(f, path), act |-> "removed"])
    ELSE IF inside_root(path)
    THEN [fs |-> rmtree(f, path), act |-> "rmtree"]
    ELSE [fs |-> f, act |-> "kept"]

\* an apply_restore that starts copying after the first pass of the purge loop
copy_after_first_pass(rest) == "copy"

\* lines 320-322: copy_from_staging is called when purge_extras has returned,
\* that is when its loop has gone through the whole list
after_purge(rest) == IF rest = <<>> THEN "copy" ELSE "purge"

\* one pass of the loop of purge_extras; after the last one copy_from_staging starts
PurgeStep ==
    /\ UNCHANGED unitVars
    /\ pc = "purge"
    /\ purgeList # <<>>
    /\ LET path == Head(purgeList)
       IN  \E fails \in {FALSE} \cup {normpath(path) \in Failable} :
              LET r == purge_one(fs, path, fails)
              IN  /\ fs' = r.fs
                  /\ purgeLog' = Append(purgeLog, [path |-> path, act |-> r.act])
                  /\ delFailed' = IF r.act = "failed" THEN delFailed \cup {path} ELSE delFailed
                  /\ touched' = touched \cup {n \in Nodes : fs'[n] # fs[n]}
    /\ purgeList' = Tail(purgeList)
    /\ pc' = after_purge(Tail(purgeList))
    /\ UNCHANGED <<tars, clock, ops, rPath, rDry, upload, staging, manifest, report, outcome,
                   preFs, copyFailed, tried>>

\* a is before b in a top-down walk that lists every directory by name
WalkLess(a, b) ==
    \/ (Len(a) < Len(b) /\ IsPrefix(a, b))
    \/ \E k \in 1..Len(a) :
          /\ k <= Len(b)
          /\ SubSeq(a, 1, k - 1) = SubSeq(b, 1, k - 1)
          /\ StrLess(a[k], b[k])

RECURSIVE WalkOrder(_)
WalkOrder(S) ==
    IF S = {} THEN <<>>
    ELSE LET m == CHOOSE x \in S : \A y \in S \ {x} : WalkLess(x, y)
         IN  <<m>> \o WalkOrder(S \ {m})

\* the entries of one staged directory, by kind, in listing order: os.walk lists
\* a symbolic link to a file among the files
Entries(tree, dir, kind) ==
    LET kids == WalkOrder({n \in Nodes : /\ Len(n) = Len(dir) + 1 /\ IsPrefix(dir, n)
                                         /\ IF kind = "dir" THEN tree[n].kind = "dir"
                                            ELSE tree[n].kind \in {"file", "link"}})
    IN  [i \in 1..Len(kids) |-> basename(kids[i])]

RECURSIVE MkDirs(_, _, _)
\* lines 265-266: os.makedirs(os.path.join(dest_base, d), exist_ok=True) for d in dirs
MkDirs(f, dest_base, names) ==
    IF names = <<>> THEN [ok |-> TRUE, fs |-> f]
    ELSE LET m == makedirs(f, join(dest_base, Head(names)))
         IN  IF m.ok THEN MkDirs(m.fs, dest_base, Tail(names)) ELSE [ok |-> FALSE, fs |-> f]

\* shutil.copy2(s, d) fails on a directory in the way, a missing parent, or a file
\* that cannot be written
copy_fails(f, d, failing) ==
    LET t == normpath(copy_target(f, d))
    IN  \/ t \notin Nodes
        \/ isdir(f, t)
        \/ ~isdir(f, dirname(t))
        \/ (t \in failing /\ isfile(f, t))

\* what shutil.copy2 reads from a staged entry: a staged symbolic link is followed
\* to the live file it names
copy_source(f, node) == IF node.kind = "link" THEN f[LinkTarget] ELSE node

\* the file shutil.copy2 opens for writing at t: a symbolic link there is followed
copy_dest(f, t) == IF islink(f, t) THEN LinkTarget ELSE t

RECURSIVE CopyFiles(_, _, _, _, _)
\* lines 267-273: the files of one directory, each copy in its own try; a copy
\* also fails when its source is a dangling link or is the file it would write
CopyFiles(f, dest_base, names, tree_dir, failing) ==
    IF names = <<>> THEN [fs |-> f, failed |-> {}, written |-> {}]
    ELSE LET fn   == Head(names)
             d    == join(dest_base, fn)
             t    == normpath(copy_target(f, d))
             src  == copy_source(f, tree_dir[fn])
             bad  == \/ copy_fails(f, d, failing)
                     \/ src.kind # "file"
                     \/ (tree_dir[fn].kind = "link" /\ copy_dest(f, t) = LinkTarget)
             f1   == IF bad THEN f ELSE [f EXCEPT ![copy_dest(f, t)] = src]
             rest == CopyFiles(f1, dest_base, Tail(names), tree_dir, failing)
         IN  [fs |-> rest.fs,
              failed  |-> IF bad THEN rest.failed \cup {d} ELSE rest.failed,
              written |-> IF bad THEN rest.written ELSE rest.written \cup {copy_dest(f, t)}]

\* the outcome of a part of copy_from_staging: whether no exception escaped, the
\* file system, the copies that failed (printed only) and the files written
Copied(f) == [ok |-> TRUE, fs |-> f, failed |-> {}, written |-> {}]

Escaped(f) == [ok |-> FALSE, fs |-> f, failed |-> {}, written |-> {}]

After(a, b) == [ok |-> b.ok, fs |-> b.fs, failed |-> a.failed \cup b.failed,
                written |-> a.written \cup b.written]

\* lines 267-273 for the directory src of staging
CopyDirFiles(f, tree, src, dest_base, failing) ==
    LET c == CopyFiles(f, dest_base, Entries(tree, src, "file"),
                       [fn \in Range(Entries(tree, src, "file")) |-> tree[join(src, fn)]],
                       failing)
    IN  [ok |-> TRUE, fs |-> c.fs, failed |-> c.failed, written |-> c.written]

\* lines 264-273: one iteration of the os.walk loop; a makedirs that fails is not caught
CopyDirSub(md, tree, src, dest_base, failing) ==
    IF md.ok THEN CopyDirFiles(md.fs, tree, src, dest_base, failing) ELSE Escaped(md.fs)

CopyDirTop(m0, tree, src, dest_base, failing) ==
    IF m0.ok
    THEN CopyDirSub(MkDirs(m0.fs, dest_base, Entries(tree, src, "dir")),
                    tree, src, dest_base, failing)
    ELSE Escaped(m0.fs)

CopyDir(f, tree, root, rel, failing) ==
    CopyDirTop(makedirs(f, root \o rel), tree, ArcKey(root, rel), root \o rel, failing)

RECURSIVE CopyDirs(_, _, _, _, _)
CopyDirsRest(c, tree, root, dirs, failing) ==
    IF c.ok THEN After(c, CopyDirs(c.fs, tree, root, dirs, failing)) ELSE c

\* lines 261-273: the os.walk of one root's staged subtree; dirs are the relative
\* paths of its directories, top-down
CopyDirs(f, tree, root, dirs, failing) ==
    IF dirs = <<>> THEN Copied(f)
    ELSE CopyDirsRest(CopyDir(f, tree, root, Head(dirs), failing),
                      tree, root, Tail(dirs), failing)

\* the directories of staging under key, relative to it, in walk order
WalkDirs(tree, key) ==
    LET walk == IF Lookup(tree, key).kind = "dir"
                THEN WalkOrder({n \in Nodes : IsPrefix(key, n) /\ tree[n].kind = "dir"})
                ELSE <<>>
    IN  [i \in 1..Len(walk) |-> SubSeq(walk[i], Len(key) + 1, Len(walk[i]))]

RECURSIVE copy_from_staging(_, _, _, _)
CopyRootsRest(r, tree, roots, failing) ==
    IF r.ok THEN After(r, copy_from_staging(r.fs, tree, roots, failing)) ELSE r

\* lines 255-273: for each root of the manifest whose subtree is in staging
copy_from_staging(f, tree, roots, failing) ==
    IF roots = <<>> THEN Copied(f)
    ELSE CopyRootsRest(CopyDirs(f, tree, Head(roots),
                                WalkDirs(tree, ArcKey(Head(roots), <<>>)), failing),
                       tree, Tail(roots), failing)

\* line 322: copy_from_staging(staging_dir, manifest); its exception leaves
\* apply_restore through the finally clause
Copy ==
    /\ UNCHANGED unitVars
    /\ pc = "copy"
    /\ \E failing \in SUBSET {n \in Failable : isfile(fs, n)} :
          LET c == copy_from_staging(fs, staging.tree, manifest.roots, failing)
          IN  /\ fs' = c.fs
              /\ touched' = touched \cup c.written \cup {n \in Nodes : fs'[n] # fs[n]}
              /\ copyFailed' = c.failed
              /\ IF c.ok
                 THEN /\ pc' = "crl"
                      /\ UNCHANGED <<outcome, staging>>
                 ELSE /\ outcome' = "raised"
                      /\ staging' = cleanup(staging)
                      /\ pc' = "done"
    /\ UNCHANGED <<tars, clock, ops, rPath, rDry, upload, manifest, report,
                   purgeList, preFs, purgeLog, delFailed, tried>>

AUTO_REGEN_CRL == TRUE

\* the CA directories regenerate_crl_if_possible may find: index.txt, ca.key,
\* the easyrsa script and pki/crl.pem each there or not
CaStates ==
    {NoPki}
    \cup {[dir |-> TRUE, index |-> i, serial |-> None, ca_key |-> k, easyrsa |-> e,
           crl |-> c] : i \in {None, <<<<>>>>}, k \in BOOLEAN, e \in BOOLEAN, c \in BOOLEAN}

\* the CA directory lies under /etc/openvpn; within apply_restore every
\* incomplete CA directory acts as the absent one
PkiAt(f) ==
    IF isdir(f, OVPN)
    THEN {NoPki} \cup {p \in CaStates : p.index # None /\ p.ca_key /\ p.easyrsa}
    ELSE {NoPki}

\* how the commands of one call go: which of easyrsa gen-crl, copy2 and chmod
\* is the first to fail, if any, and whether easyrsa writes pki/crl.pem
CrlRuns == [fails : {"none", "easyrsa", "copy", "chmod"}, makes : BOOLEAN]

Did(what, ok) == [what |-> what, ok |-> ok]

\* lines 285-292, the body of the try: the commands run in order until one
\* fails; copy2 needs the directory of crl_dst and writes inside crl_dst when
\* that is a directory
crl_try(f, p, run) ==
    LET made   == [p EXCEPT !.crl = p.crl \/ run.makes]
        copyOk == run.fails # "copy" /\ isdir(f, OVPN)
        copied == IF isdir(f, CrlDst) THEN f ELSE [f EXCEPT ![CrlDst] = FileNode(0)]
    IN  IF run.fails = "easyrsa"
        THEN [raised |-> TRUE, fs |-> f, pki |-> p, did |-> <<Did("easyrsa", FALSE)>>]
        ELSE IF ~made.crl
        THEN [raised |-> FALSE, fs |-> f, pki |-> made, did |-> <<Did("easyrsa", TRUE)>>]
        ELSE IF ~copyOk
        THEN [raised |-> TRUE, fs |-> f, pki |-> made,
              did |-> <<Did("easyrsa", TRUE), Did("copy", FALSE)>>]
        ELSE [raised |-> run.fails = "chmod", fs |-> copied, pki |-> made,
              did |-> <<Did("easyrsa", TRUE), Did("copy", TRUE),
                        Did("chmod", run.fails # "chmod")>>]

\* regenerate_crl_if_possible that looks for index.txt and easyrsa only
regenerate_crl_without_key_check(f, p, run) ==
    IF ~AUTO_REGEN_CRL
    THEN [raised |-> FALSE, ok |-> FALSE, msg |-> "AUTO_REGEN_CRL disabled", fs |-> f,
          pki |-> p, did |-> <<>>]
    ELSE IF ~(p.index # None /\ p.easyrsa)
    THEN [raised |-> FALSE, ok |-> FALSE, msg |-> "PKI incomplete", fs |-> f, pki |-> p,
          did |-> <<>>]
    ELSE [raised |-> FALSE, ok |-> ~crl_try(f, p, run).raised,
          msg |-> IF crl_try(f, p, run).raised THEN "CRL regen failed" ELSE "CRL regenerated.",
          fs |-> crl_try(f, p, run).fs, pki |-> crl_try(f, p, run).pki,
          did |-> crl_try(f, p, run).did]

\* regenerate_crl_if_possible without its except clause
regenerate_crl_uncaught(f, p, run) ==
    IF ~AUTO_REGEN_CRL
    THEN [raised |-> FALSE, ok |-> FALSE, msg |-> "AUTO_REGEN_CRL disabled", fs |-> f,
          pki |-> p, did |-> <<>>]
    ELSE IF ~(p.index # None /\ p.ca_key /\ p.easyrsa)
    THEN [raised |-> FALSE, ok |-> FALSE, msg |-> "PKI incomplete", fs |-> f, pki |-> p,
          did |-> <<>>]
    ELSE [raised |-> crl_try(f, p, run).raised, ok |-> ~crl_try(f, p, run).raised,
          msg |-> IF crl_try(f, p, run).raised THEN "" ELSE "CRL regenerated.",
          fs |-> crl_try(f, p, run).fs, pki |-> crl_try(f, p, run).pki,
          did |-> crl_try(f, p, run).did]

\* regenerate_crl_if_possible, lines 275-294: the flag, the three files that
\* must exist, then the try whose exception becomes (False, "CRL regen failed")
regenerate_crl_if_possible(f, p, run) ==
    IF ~AUTO_REGEN_CRL
    THEN [raised |-> FALSE, ok |-> FALSE, msg |-> "AUTO_REGEN_CRL disabled", fs |-> f,
          pki |-> p, did |-> <<>>]
    ELSE IF ~(p.index # None /\ p.ca_key /\ p.easyrsa)
    THEN [raised |-> FALSE, ok |-> FALSE, msg |-> "PKI incomplete", fs |-> f, pki |-> p,
          did |-> <<>>]
    ELSE [raised |-> FALSE, ok |-> ~crl_try(f, p, run).raised,
          msg |-> IF crl_try(f, p, run).raised THEN "CRL regen failed" ELSE "CRL regenerated.",
          fs |-> crl_try(f, p, run).fs, pki |-> crl_try(f, p, run).pki,
          did |-> crl_try(f, p, run).did]

\* apply_restore that gives up when the regeneration did not succeed
crl_fatal(r) == IF r.raised \/ ~r.ok THEN "done" ELSE "restart"

\* lines 324-325: success is not looked at; only an exception out of
\* regenerate_crl_if_possible would end apply_restore here
after_crl(r) == IF r.raised THEN "done" ELSE "restart"

\* lines 324-325: regenerate_crl_if_possible after the copy, on whatever CA
\* directory is there, and its message put into the report
Crl ==
    /\ UNCHANGED unitVars
    /\ pc = "crl"
    /\ \E p \in PkiAt(fs), run \in CrlRuns :
          LET r == regenerate_crl_if_possible(fs, p, run)
          IN  /\ fs' = r.fs
              /\ IF after_crl(r) = "restart"
                 THEN /\ report' = [report EXCEPT !.crl_action = r.msg]
                      /\ pc' = "restart"
                      /\ UNCHANGED <<outcome, staging>>
                 ELSE /\ outcome' = "raised"
                      /\ staging' = cleanup(staging)
                      /\ pc' = "done"
                      /\ UNCHANGED report
    /\ tried' = tried \cup {"crl"}
    /\ UNCHANGED <<tars, clock, ops, rPath, rDry, upload, manifest, purgeList,
                   preFs, touched, purgeLog, delFailed, copyFailed>>

\* apply_restore whose restart is not inside a try: a failing command raises
restart_uncaught(rep, ok) ==
    IF ok THEN [raised |-> FALSE, report |-> [rep EXCEPT !.service_restart = "OK"]]
    ELSE [raised |-> TRUE, report |-> rep]

\* lines 327-332: systemctl restart inside its try; the exception of a failing
\* command becomes the status and an entry of the error list
service_restart(rep, ok) ==
    IF ok THEN [raised |-> FALSE, report |-> [rep EXCEPT !.service_restart = "OK"]]
    ELSE [raised |-> FALSE,
          report |-> [rep EXCEPT !.service_restart = "Failed",
                                 !.errors = Append(@, [what |-> "restart", path |-> <<>>])]]

\* lines 327-336: the restart, return report, and the finally clause
Restart ==
    /\ UNCHANGED unitVars
    /\ pc = "restart"
    /\ \E ok \in BOOLEAN :
          LET r == service_restart(report, ok)
          IN  /\ report' = r.report
              /\ outcome' = IF r.raised THEN "raised" ELSE "returned"
              /\ tried' = tried \cup {"restart"} \cup (IF ok THEN {} ELSE {"restart failed"})
    /\ staging' = cleanup(staging)
    /\ pc' = "done"
    /\ UNCHANGED <<fs, tars, clock, ops, rPath, rDry, upload, manifest, purgeList,
                   preFs, touched, purgeLog, delFailed, copyFailed>>

\* the handler that called apply_restore answers the operator
Reply ==
    /\ UNCHANGED unitVars
    /\ pc = "done"
    /\ pc' = "idle"
    /\ UNCHANGED <<fs, tars, clock, ops>>
    /\ ResetCall

Next ==
    \/ Backup
    \/ DeleteArchive
    \/ EnvChange
    \/ StartRestore
    \/ Diff
    \/ PurgeStep
    \/ Copy
    \/ Crl
    \/ Restart
    \/ Reply

Spec == Init /\ [][Next]_vars

(* ---------------- purge_extras on any list ---------------- *)

\* the longest extra_list purge_extras is given
MaxExtra == 3

\* /root/../etc/other: the directory /etc/other, written through a root
OtherRaw == <<"root", "..", "etc", "other">>

\* the paths an extra_list is made of
PurgePaths == {ChainF, ChainC, ChainB, ChainA, OVPN, Cache, Other, OtherRaw}

ExtraLists == UNION {[1..k -> PurgePaths] : k \in 1..MaxExtra}

\* purge_extras(extra_list) is called on some live filesystem
InitPurge ==
    /\ \E c \in UserCfgs : fs = LiveFs(c)
    /\ \E extra_list \in ExtraLists : purgeList = SortByLenDesc(extra_list)
    /\ pc = "purge"
    /\ rDry = FALSE
    /\ tars = <<>>
    /\ clock = 1
    /\ ops = 0
    /\ rPath = <<>>
    /\ upload = NoUpload
    /\ staging = NoStaging
    /\ manifest = NoManifest
    /\ report = NoReport
    /\ outcome = "none"
    /\ preFs = fs
    /\ touched = {}
    /\ purgeLog = <<>>
    /\ delFailed = {}
    /\ copyFailed = {}
    /\ tried = {}
    /\ NoUnit

NextPurge == PurgeStep

SpecPurge == InitPurge /\ [][NextPurge]_vars

(* ---------------- build_manifest and compute_diff on any roots ---------------- *)

\* the lists of roots build_manifest is called with: one root, that root
\* written as /etc//openvpn and as /etc/openvpn/../openvpn, a root twice, roots
\* that overlap, a root that does not exist, the configured roots
RootLists ==
    { <<OVPN>>, << <<"etc", "", "openvpn">> >>, << <<"etc", "openvpn", "..", "openvpn">> >>,
      <<OVPN, OVPN>>, << <<"etc">>, OVPN >>, << <<"etc", "none">> >>, BACKUP_ROOTS }

\* the live trees: the user files in any shape, crl.pem, x.log there or not
DiffTrees ==
    {[LiveFs(c) EXCEPT ![LogFile] = l, ![CrlDst] = FileNode(1)] :
        c \in UserCfgs, l \in {NoNode, FileNode(1)}}

\* manifests that come with an archive made elsewhere: a path recorded twice
\* with two digests, records out of order, a record of a file with an
\* excluded suffix
GivenManifests ==
    { [version |-> 1, roots |-> <<OVPN>>,
       files |-> << [path |-> CrlDst, sha256 |-> sha256(2)],
                    [path |-> ChainA, sha256 |-> sha256(2)],
                    [path |-> ChainA, sha256 |-> sha256(1)] >>],
      [version |-> 1, roots |-> <<OVPN>>,
       files |-> << [path |-> ChainF, sha256 |-> sha256(1)],
                    [path |-> ChainA, sha256 |-> sha256(1)],
                    [path |-> ChainF, sha256 |-> sha256(1)] >>],
      [version |-> 1, roots |-> <<OVPN>>,
       files |-> << [path |-> LogFile, sha256 |-> sha256(1)] >>] }

\* the most files that cannot be read at a time
MaxUnreadable == 1

\* the regular files of a tree
Files(f) == {n \in Nodes : f[n].kind = "file"}

InitDiff ==
    /\ fs \in DiffTrees
    /\ rootsArg \in RootLists
    /\ pc = "build"
    /\ manifest = NoManifest
    /\ report = NoReport
    /\ unreadable = {}
    /\ preFs = fs
    /\ rDry = TRUE
    /\ tars = <<>>
    /\ clock = 1
    /\ ops = 0
    /\ rPath = <<>>
    /\ upload = NoUpload
    /\ staging = NoStaging
    /\ purgeList = <<>>
    /\ outcome = "none"
    /\ touched = {}
    /\ purgeLog = <<>>
    /\ delFailed = {}
    /\ copyFailed = {}
    /\ tried = {}
    /\ pki = NoPki
    /\ text = <<>>
    /\ loaded = <<>>
    /\ crlRet = NoCrlRet
    /\ NoBot

\* build_manifest(roots) on the live tree
BuildManifest ==
    /\ pc = "build"
    /\ manifest' = build_manifest(fs, rootsArg)
    /\ preFs' = fs
    /\ pc' = "built"
    /\ UNCHANGED <<fs, report, unreadable>>
    /\ UNCHANGED <<tars, clock, ops, rPath, rDry, upload, staging, purgeList, outcome,
                   touched, purgeLog, delFailed, copyFailed, tried, rootsArg, pki, text,
                   loaded, crlRet, botVars>>

\* build_manifest(roots) while a file it found is deleted by another process,
\* the first time the file is reached
BuildManifestRacing ==
    /\ pc = "build"
    /\ \E i \in 1..Len(rootsArg), at \in {"stat", "hash"} :
          \E p \in Range(iter_files(fs, normpath(rootsArg[i]))) :
             /\ \A k \in 1..(i - 1) :
                   normpath(p) \notin {normpath(q) :
                                          q \in Range(iter_files(fs, normpath(rootsArg[k])))}
             /\ LET r == build_manifest_racing(fs, rootsArg, i, p, at)
                IN  /\ manifest' = r.manifest
                    /\ outcome' = IF r.raised THEN "raised" ELSE "returned"
             /\ fs' = remove(fs, p)
    /\ preFs' = fs
    /\ pc' = "raced"
    /\ UNCHANGED <<report, unreadable>>
    /\ UNCHANGED <<tars, clock, ops, rPath, rDry, upload, staging, purgeList,
                   touched, purgeLog, delFailed, copyFailed, tried, rootsArg, pki, text,
                   loaded, crlRet, botVars>>

\* a manifest made elsewhere is taken instead
GiveManifest ==
    /\ pc = "build"
    /\ manifest' \in GivenManifests
    /\ preFs' = fs
    /\ pc' = "built"
    /\ UNCHANGED <<fs, report, unreadable>>
    /\ UNCHANGED <<tars, clock, ops, rPath, rDry, upload, staging, purgeList, outcome,
                   touched, purgeLog, delFailed, copyFailed, tried, rootsArg, pki, text,
                   loaded, crlRet, botVars>>

\* after the manifest was made files are created, removed or overwritten
EditTree ==
    /\ pc = "built"
    /\ \/ \E c \in ChainCfgs : fs' = [n \in Nodes |-> IF n \in DOMAIN c THEN c[n] ELSE fs[n]]
       \/ \E l \in {NoNode, FileNode(1), FileNode(2)} : fs' = [fs EXCEPT ![LogFile] = l]
    /\ fs' # fs
    /\ pc' = "edited"
    /\ UNCHANGED <<manifest, report, unreadable, preFs>>
    /\ UNCHANGED <<tars, clock, ops, rPath, rDry, upload, staging, purgeList, outcome,
                   touched, purgeLog, delFailed, copyFailed, tried, rootsArg, pki, text,
                   loaded, crlRet, botVars>>

\* compute_diff(manifest) on the live tree, some of whose files cannot be read
ComputeDiff ==
    /\ pc \in {"built", "edited"}
    /\ \E failing \in SUBSET Files(fs) :
          /\ Cardinality(failing) <= MaxUnreadable
          /\ unreadable' = failing
          /\ report' = [report EXCEPT !.diff = compute_diff(manifest, fs, failing)]
    /\ pc' = "diffed"
    /\ UNCHANGED <<fs, manifest, preFs>>
    /\ UNCHANGED <<tars, clock, ops, rPath, rDry, upload, staging, purgeList, outcome,
                   touched, purgeLog, delFailed, copyFailed, tried, rootsArg, pki, text,
                   loaded, crlRet, botVars>>

NextDiff ==
    \/ BuildManifest
    \/ BuildManifestRacing
    \/ GiveManifest
    \/ EditTree
    \/ ComputeDiff

SpecDiff == InitDiff /\ [][NextDiff]_vars

(* ---------------- build_manifest on trees with symbolic links ---------------- *)

\* the live trees: the user files in any shape, /etc/openvpn/L a symbolic link
\* to the directory /etc/other or absent, /etc/other/t there or not
WalkTrees ==
    {[LiveFs(c) EXCEPT ![LinkDir] = l, ![LinkTarget] = t] :
        c \in UserCfgs, l \in {NoNode, DirLinkNode}, t \in {NoNode, FileNode(1)}}

InitWalk ==
    /\ fs \in WalkTrees
    /\ rootsArg \in RootLists
    /\ pc = "build"
    /\ manifest = NoManifest
    /\ report = NoReport
    /\ unreadable = {}
    /\ preFs = fs
    /\ rDry = TRUE
    /\ tars = <<>>
    /\ clock = 1
    /\ ops = 0
    /\ rPath = <<>>
    /\ upload = NoUpload
    /\ staging = NoStaging
    /\ purgeList = <<>>
    /\ outcome = "none"
    /\ touched = {}
    /\ purgeLog = <<>>
    /\ delFailed = {}
    /\ copyFailed = {}
    /\ tried = {}
    /\ pki = NoPki
    /\ text = <<>>
    /\ loaded = <<>>
    /\ crlRet = NoCrlRet
    /\ NoBot

NextWalk == BuildManifest

SpecWalk == InitWalk /\ [][NextWalk]_vars

(* ---------------- the manifest's PKI section and manifest.json ---------------- *)

\* the most lines index.txt holds
MaxLines == 2

\* str.isspace for the characters index.txt is made of
IsSpace(c) == c = " " \/ c = "\t" \/ c = "\n"

RECURSIVE LStripFrom(_, _)
LStripFrom(s, i) ==
    IF i <= Len(s) /\ IsSpace(SubSeq(s, i, i)) THEN LStripFrom(s, i + 1) ELSE i

RECURSIVE RStripFrom(_, _)
RStripFrom(s, i) ==
    IF i >= 1 /\ IsSpace(SubSeq(s, i, i)) THEN RStripFrom(s, i - 1) ELSE i

\* str.strip()
strip(s) == SubSeq(s, LStripFrom(s, 1), RStripFrom(s, Len(s)))

RECURSIVE SplitFrom(_, _, _, _)
SplitFrom(s, i, cur, acc) ==
    IF i > Len(s) THEN (IF cur = "" THEN acc ELSE Append(acc, cur))
    ELSE IF IsSpace(SubSeq(s, i, i))
    THEN SplitFrom(s, i + 1, "", IF cur = "" THEN acc ELSE Append(acc, cur))
    ELSE SplitFrom(s, i + 1, cur \o SubSeq(s, i, i), acc)

\* str.split(): the runs of characters between whitespace
split(s) == SplitFrom(s, 1, "", <<>>)

RECURSIVE SplitOnFrom(_, _, _, _, _)
SplitOnFrom(s, sep, i, cur, acc) ==
    IF i > Len(s) THEN Append(acc, cur)
    ELSE IF SubSeq(s, i, i) = sep THEN SplitOnFrom(s, sep, i + 1, "", Append(acc, cur))
    ELSE SplitOnFrom(s, sep, i + 1, cur \o SubSeq(s, i, i), acc)

\* str.split(sep) for a separator of one character: empty pieces are kept
split_on(s, sep) == SplitOnFrom(s, sep, 1, "", <<>>)

\* str.startswith
StartsWith(s, pre) == Len(s) >= Len(pre) /\ SubSeq(s, 1, Len(pre)) = pre

\* lines 139-144: the text after CN= in the first /-segment that begins with
\* CN=, when the subject begins with /; "" stands for None and for an empty name
subject_cn(subject) ==
    LET parts == split_on(subject, "/")
        hits  == {i \in 1..Len(parts) : StartsWith(parts[i], "CN=")}
    IN  IF ~StartsWith(subject, "/") \/ hits = {} THEN ""
        ELSE LET first == CHOOSE i \in hits : \A j \in hits : i <= j
             IN  SubSeq(parts[first], 4, Len(parts[first]))

\* lines 135-150: the record of one line, of its tokens parts
client_record(parts) ==
    [cn |-> IF subject_cn(parts[Len(parts)]) = "" THEN "?"
            ELSE subject_cn(parts[Len(parts)]),
     status |-> parts[1], serial |-> parts[4], expiry_raw |-> parts[2]]

RECURSIVE parse_index(_)
\* lines 128-150: the loop over the lines of index.txt
parse_index(lines) ==
    IF lines = <<>> THEN <<>>
    ELSE IF strip(Head(lines)) = "" \/ Len(split(strip(Head(lines)))) < 5
    THEN parse_index(Tail(lines))
    ELSE <<client_record(split(strip(Head(lines))))>> \o parse_index(Tail(lines))

\* lines 117-159 and 166-171: openvpn_pki, of the CA directory p
openvpn_pki(p) ==
    [pki_root     |-> IF p.dir THEN << <<"etc", "openvpn", "easy-rsa", "pki">> >> ELSE None,
     index_sha256 |-> IF p.index = None THEN None ELSE <<sha256(p.index[1])>>,
     serial       |-> IF p.serial = None THEN None ELSE <<strip(p.serial[1])>>,
     clients      |-> IF p.index = None THEN <<>> ELSE parse_index(p.index[1])]

\* lines 161-173: the manifest with all its fields, made at second now
build_manifest_pki(f, rts, now, p) ==
    [version     |-> build_manifest(f, rts).version,
     created_at  |-> ToString(now),
     roots       |-> build_manifest(f, rts).roots,
     files       |-> build_manifest(f, rts).files,
     openvpn_pki |-> openvpn_pki(p)]

\* the values of a JSON text: null, a number, a string, an array of values, an
\* object as the list of its <<name, value>> members
Json(kind, v) == [j |-> kind, v |-> v]

\* json.dump of a value that may be None, None written as the text "None"
dump_optional_as_text(v) ==
    IF v = None THEN Json("string", "None") ELSE Json("string", v[1])

\* json.dump of a str that may be None
dump_optional(v) == IF v = None THEN Json("null", None) ELSE Json("string", v[1])

\* save_manifest: json.dump(manifest, f): what manifest.json holds
save_manifest(m) ==
    Json("object",
      << <<"version", Json("number", m.version)>>,
         <<"created_at", Json("string", m.created_at)>>,
         <<"roots", Json("array", [i \in 1..Len(m.roots) |-> Json("string", m.roots[i])])>>,
         <<"files",
           Json("array", [i \in 1..Len(m.files) |->
              Json("object", << <<"path", Json("string", m.files[i].path)>>,
                                <<"sha256", Json("string", m.files[i].sha256)>> >>)])>>,
         <<"openvpn_pki",
           Json("object",
             << <<"pki_root", dump_optional(m.openvpn_pki.pki_root)>>,
                <<"index_sha256", dump_optional(m.openvpn_pki.index_sha256)>>,
                <<"serial", dump_optional(m.openvpn_pki.serial)>>,
                <<"clients",
                  Json("array", [i \in 1..Len(m.openvpn_pki.clients) |->
                     Json("object",
                       << <<"cn", Json("string", m.openvpn_pki.clients[i].cn)>>,
                          <<"status", Json("string", m.openvpn_pki.clients[i].status)>>,
                          <<"serial", Json("string", m.openvpn_pki.clients[i].serial)>>,
                          <<"expiry_raw",
                            Json("string", m.openvpn_pki.clients[i].expiry_raw)>> >>)])>>
             >>)>> >>)

\* obj[key] of a loaded JSON object: the value of the last member of that name
Member(obj, key) ==
    LET idx == {i \in 1..Len(obj.v) : obj.v[i][1] = key}
    IN  obj.v[CHOOSE i \in idx : \A k \in idx : k <= i][2]

\* what json.load makes of a JSON string or null
load_optional(x) == IF x.j = "null" THEN None ELSE <<x.v>>

\* line 188: json.load(f) of manifest.json
json_load(doc) ==
    [version     |-> Member(doc, "version").v,
     created_at  |-> Member(doc, "created_at").v,
     roots       |-> [i \in 1..Len(Member(doc, "roots").v) |-> Member(doc, "roots").v[i].v],
     files       |-> [i \in 1..Len(Member(doc, "files").v) |->
                        [path   |-> Member(Member(doc, "files").v[i], "path").v,
                         sha256 |-> Member(Member(doc, "files").v[i], "sha256").v]],
     openvpn_pki |->
        [pki_root     |-> load_optional(Member(Member(doc, "openvpn_pki"), "pki_root")),
         index_sha256 |-> load_optional(Member(Member(doc, "openvpn_pki"), "index_sha256")),
         serial       |-> load_optional(Member(Member(doc, "openvpn_pki"), "serial")),
         clients      |->
            [i \in 1..Len(Member(Member(doc, "openvpn_pki"), "clients").v) |->
                [cn         |-> Member(Member(Member(doc, "openvpn_pki"), "clients").v[i],
                                       "cn").v,
                 status     |-> Member(Member(Member(doc, "openvpn_pki"), "clients").v[i],
                                       "status").v,
                 serial     |-> Member(Member(Member(doc, "openvpn_pki"), "clients").v[i],
                                       "serial").v,
                 expiry_raw |-> Member(Member(Member(doc, "openvpn_pki"), "clients").v[i],
                                       "expiry_raw").v]]]]

\* the lines index.txt is made of: the line of the specification, lines as
\* openssl writes them for a valid and a revoked certificate, a blank line, a
\* short line, a subject with several segments, a subject without /
IndexLines ==
    { "V  251231000000Z    01  unused  /CN=alice",
      "V\t251231000000Z\t\t03\tunknown\t/C=US/CN=carol/O=x",
      "R\t251231000000Z\t240101000000Z\t02\tunknown\t/CN=bob",
      "",
      "V 1 2 3",
      "V a b c nosubject" }

\* the CA directories: absent; present with index.txt and serial there or not
PkiDirs ==
    {NoPki}
    \cup {[NoPki EXCEPT !.dir = TRUE, !.index = i, !.serial = sr] :
            i \in {None} \cup {<<x>> : x \in UNION {[1..k -> IndexLines] : k \in 0..MaxLines}},
            sr \in {None, <<"04\n">>}}

InitManifest ==
    /\ \E c \in ChainCfgs : fs = LiveFs([n \in UserNodes |-> IF n = Cache THEN NoNode ELSE c[n]])
    /\ pki \in PkiDirs
    /\ clock \in Times
    /\ rootsArg = BACKUP_ROOTS
    /\ pc = "build"
    /\ manifest = NoManifest
    /\ text = <<>>
    /\ loaded = <<>>
    /\ report = NoReport
    /\ unreadable = {}
    /\ preFs = fs
    /\ rDry = TRUE
    /\ tars = <<>>
    /\ ops = 0
    /\ rPath = <<>>
    /\ upload = NoUpload
    /\ staging = NoStaging
    /\ purgeList = <<>>
    /\ outcome = "none"
    /\ touched = {}
    /\ purgeLog = <<>>
    /\ delFailed = {}
    /\ copyFailed = {}
    /\ tried = {}
    /\ crlRet = NoCrlRet
    /\ NoBot

\* create_backup, lines 198-204: the manifest is built, written to manifest.json
\* and put into the archive
PackManifest ==
    /\ pc = "build"
    /\ manifest' = build_manifest_pki(fs, rootsArg, clock, pki)
    /\ text' = save_manifest(manifest')
    /\ pc' = "packed"
    /\ UNCHANGED loaded
    /\ UNCHANGED <<fs, tars, clock, ops, rPath, rDry, upload, staging, report, purgeList,
                   outcome, preFs, touched, purgeLog, delFailed, copyFailed, tried,
                   rootsArg, unreadable, pki, crlRet, botVars>>

\* load_manifest_from_archive, lines 183-188: manifest.json comes out of the
\* archive and is read
LoadManifest ==
    /\ pc = "packed"
    /\ loaded' = json_load(text)
    /\ pc' = "loaded"
    /\ UNCHANGED <<manifest, text>>
    /\ UNCHANGED <<fs, tars, clock, ops, rPath, rDry, upload, staging, report, purgeList,
                   outcome, preFs, touched, purgeLog, delFailed, copyFailed, tried,
                   rootsArg, unreadable, pki, crlRet, botVars>>

NextManifest ==
    \/ PackManifest
    \/ LoadManifest

SpecManifest == InitManifest /\ [][NextManifest]_vars

(* ---------------- build_manifest and files of the CA that cannot be read ---------------- *)

\* index_path and serial_path of build_manifest, lines 118-119
IndexPath == <<"etc", "openvpn", "easy-rsa", "pki", "index.txt">>
SerialPath == <<"etc", "openvpn", "easy-rsa", "pki", "serial">>

\* the files of the CA directory p that are there
PkiFiles(p) ==
    (IF p.index = None THEN {} ELSE {IndexPath})
        \cup (IF p.serial = None THEN {} ELSE {SerialPath})

\* lines 124-159 when the files in failing cannot be opened: the exception is
\* passed over and the fields of the file keep their initial values
openvpn_pki_reading(p, failing) ==
    openvpn_pki([p EXCEPT !.index = IF IndexPath \in failing THEN None ELSE @,
                          !.serial = IF SerialPath \in failing THEN None ELSE @])

\* build_manifest(rts) when the files in failing cannot be opened: the loop of
\* lines 99-115 hashes every file of the CA directory that lies under a root
\* (line 110, outside every try), then lines 117-173 follow
build_manifest_reading(f, rts, now, p, failing) ==
    LET walked == {x \in PkiFiles(p) :
                      \E i \in 1..Len(rts) : IsPrefix(normpath(rts[i]), x)}
    IN  IF walked \cap failing # {}
        THEN [raised |-> TRUE, manifest |-> NoManifest]
        ELSE [raised |-> FALSE,
              manifest |-> [build_manifest_pki(f, rts, now, p)
                               EXCEPT !.openvpn_pki = openvpn_pki_reading(p, failing)]]

\* the root lists: the configured roots, which hold the CA directory, and /root alone
InitPki ==
    /\ \E c \in ChainCfgs : fs = LiveFs([n \in UserNodes |-> IF n = Cache THEN NoNode ELSE c[n]])
    /\ pki \in PkiDirs
    /\ unreadable \in SUBSET PkiFiles(pki)
    /\ rootsArg \in {BACKUP_ROOTS, << <<"root">> >>}
    /\ clock = 1
    /\ pc = "build"
    /\ manifest = NoManifest
    /\ text = <<>>
    /\ loaded = <<>>
    /\ report = NoReport
    /\ preFs = fs
    /\ rDry = TRUE
    /\ tars = <<>>
    /\ ops = 0
    /\ rPath = <<>>
    /\ upload = NoUpload
    /\ staging = NoStaging
    /\ purgeList = <<>>
    /\ outcome = "none"
    /\ touched = {}
    /\ purgeLog = <<>>
    /\ delFailed = {}
    /\ copyFailed = {}
    /\ tried = {}
    /\ crlRet = NoCrlRet
    /\ NoBot

\* one call of build_manifest
CapturePki ==
    /\ pc = "build"
    /\ LET r == build_manifest_reading(fs, rootsArg, clock, pki, unreadable)
       IN  /\ manifest' = r.manifest
           /\ outcome' = IF r.raised THEN "raised" ELSE "returned"
    /\ pc' = "captured"
    /\ UNCHANGED <<fs, tars, clock, ops, rPath, rDry, upload, staging, report, purgeList,
                   preFs, touched, purgeLog, delFailed, copyFailed, tried,
                   rootsArg, unreadable, pki, text, loaded, crlRet, botVars>>

NextPki == CapturePki

SpecPki == InitPki /\ [][NextPki]_vars

(* ---------------- regenerate_crl_if_possible on any CA directory ---------------- *)

\* regenerate_crl_if_possible is called on a live tree, /etc/openvpn/crl.pem
\* there or not, with any CA directory
InitCrl ==
    /\ \E c \in ChainCfgs, l \in {NoNode, FileNode(1)} :
          fs = [LiveFs([n \in UserNodes |-> IF n = Cache THEN NoNode ELSE c[n]])
                    EXCEPT ![CrlDst] = l]
    /\ pki \in CaStates
    /\ crlRet = NoCrlRet
    /\ NoBot
    /\ pc = "call"
    /\ preFs = fs
    /\ rootsArg = <<>>
    /\ unreadable = {}
    /\ text = <<>>
    /\ loaded = <<>>
    /\ manifest = NoManifest
    /\ report = NoReport
    /\ rDry = TRUE
    /\ tars = <<>>
    /\ clock = 1
    /\ ops = 0
    /\ rPath = <<>>
    /\ upload = NoUpload
    /\ staging = NoStaging
    /\ purgeList = <<>>
    /\ outcome = "none"
    /\ touched = {}
    /\ purgeLog = <<>>
    /\ delFailed = {}
    /\ copyFailed = {}
    /\ tried = {}

\* one call of regenerate_crl_if_possible, its commands going as run says
RegenerateCrl ==
    /\ pc = "call"
    /\ \E run \in CrlRuns :
          LET r == regenerate_crl_if_possible(fs, pki, run)
          IN  /\ fs' = r.fs
              /\ pki' = r.pki
              /\ crlRet' = [raised |-> r.raised, ok |-> r.ok, msg |-> r.msg, did |-> r.did]
    /\ pc' = "returned"
    /\ UNCHANGED <<tars, clock, ops, rPath, rDry, upload, staging, manifest, report,
                   purgeList, outcome, preFs, touched, purgeLog, delFailed, copyFailed,
                   tried, rootsArg, unreadable, text, loaded, botVars>>

NextCrl == RegenerateCrl

SpecCrl == InitCrl /\ [][NextCrl]_vars

(* ---------------- create_backup and its staging directory ---------------- *)

\* create_backup where save_manifest or the writing of the archive may raise:
\* the staging directory is made on line 200 and removed on line 209, which
\* an exception out of lines 201-208 never reaches
create_backup_run(f, ts, id, fails) ==
    LET f1   == makedirs(f, BACKUP_OUTPUT_DIR).fs
        made == [NoStaging EXCEPT !.exists = TRUE]
        done == create_backup(f, ts, id)
    IN  IF fails = "save"
        THEN [raised |-> TRUE, fs |-> f1, staging |-> made, tar |-> NoUpload]
        ELSE IF fails = "archive"
        THEN [raised |-> TRUE, fs |-> f1, tar |-> NoUpload,
              staging |-> [made EXCEPT !.hasManifest = TRUE,
                                       !.manifest = build_manifest(f1, BACKUP_ROOTS)]]
        ELSE [raised |-> FALSE, fs |-> done.fs, staging |-> NoStaging, tar |-> done.tar]

\* create_backup is called on some live filesystem
InitBackup ==
    /\ \E c \in UserCfgs : fs = LiveFs(c)
    /\ pc = "backup"
    /\ rDry = TRUE
    /\ tars = <<>>
    /\ clock = 1
    /\ ops = 0
    /\ rPath = <<>>
    /\ upload = NoUpload
    /\ staging = NoStaging
    /\ manifest = NoManifest
    /\ report = NoReport
    /\ purgeList = <<>>
    /\ outcome = "none"
    /\ preFs = fs
    /\ touched = {}
    /\ purgeLog = <<>>
    /\ delFailed = {}
    /\ copyFailed = {}
    /\ tried = {}
    /\ NoUnit

\* one call of create_backup, in which nothing, save_manifest or the archive fails
CreateBackup ==
    /\ pc = "backup"
    /\ \E ts \in clock..MaxTime, fails \in {"none", "save", "archive"} :
          LET r == create_backup_run(fs, ts, 1, fails)
          IN  /\ fs' = r.fs
              /\ staging' = r.staging
              /\ tars' = IF r.raised THEN tars ELSE <<r.tar>>
              /\ outcome' = IF r.raised THEN "raised" ELSE "returned"
              /\ clock' = ts
    /\ pc' = "backed"
    /\ UNCHANGED <<ops, rPath, rDry, upload, manifest, report, purgeList, preFs, touched,
                   purgeLog, delFailed, copyFailed, tried, unitVars>>

NextBackup == CreateBackup

SpecBackup == InitBackup /\ [][NextBackup]_vars

(* ---------------- the restore of a manifest made elsewhere ---------------- *)

\* the live trees with excluded files: /root/.cache in any shape, a file in the
\* directory /root/.cache, x.log there or not
ScopeTrees ==
    {[LiveFs(c) EXCEPT ![LogFile] = l,
                       ![ShadowCache] = IF c[Cache].kind = "dir" THEN s ELSE NoNode] :
        c \in UserCfgs, l \in {NoNode, FileNode(1)}, s \in {NoNode, FileNode(1)}}

\* the manifests of archives that hold nothing else: the configured roots, the
\* first root alone, a root that is the excluded directory /root/.cache
ScopeManifests ==
    {[version |-> 1, roots |-> r, files |-> <<>>] : r \in {BACKUP_ROOTS, <<OVPN>>, <<Cache>>}}

\* apply_restore at line 304: the archive is unpacked, the manifest is loaded
InitScope ==
    /\ fs \in ScopeTrees
    /\ manifest \in ScopeManifests
    /\ staging = [exists |-> TRUE, hasManifest |-> TRUE, manifest |-> manifest,
                  tree |-> EmptyTree, reused |-> FALSE]
    /\ upload = [readable |-> TRUE, hasManifest |-> TRUE, manifest |-> manifest,
                 tree |-> EmptyTree, outside |-> {}]
    /\ rPath = ForeignPath
    /\ rDry \in BOOLEAN
    /\ pc = "diff"
    /\ tars = <<>>
    /\ clock = 1
    /\ ops = 1
    /\ report = NoReport
    /\ purgeList = <<>>
    /\ outcome = "none"
    /\ preFs = fs
    /\ touched = {}
    /\ purgeLog = <<>>
    /\ delFailed = {}
    /\ copyFailed = {}
    /\ tried = {}
    /\ NoUnit

NextScope ==
    \/ Diff
    \/ PurgeStep
    \/ Copy

SpecScope == InitScope /\ [][NextScope]_vars

(* ---------------- the bot's backup and the earlier backups ---------------- *)

\* _temporarily_hide_root_backup_stuff: the archives of /root and the
\* directory /root/backups are moved away
bot_hidden(f) ==
    [n \in Nodes |->
        IF n \in RootArchiveGlob(f)
           \/ (isdir(f, BACKUP_OUTPUT_DIR) /\ IsPrefix(BACKUP_OUTPUT_DIR, n))
        THEN NoNode ELSE f[n]]

\* _restore_hidden_root_backup_stuff on the tree fAfter: a hidden thing whose
\* place is free is moved back, one whose place is taken is removed
bot_put_back(f, fAfter) ==
    [n \in Nodes |->
        IF \/ (n \in RootArchiveGlob(f) /\ ~exists(fAfter, n))
           \/ (/\ isdir(f, BACKUP_OUTPUT_DIR) /\ IsPrefix(BACKUP_OUTPUT_DIR, n)
               /\ ~exists(fAfter, BACKUP_OUTPUT_DIR))
        THEN f[n] ELSE fAfter[n]]

\* lines 744-755 once create_backup has returned or raised: its archive is
\* moved to /root, and the hidden things are put back in the finally clause
bot_backup_made(f, ts, made) ==
    [raised  |-> made.raised,
     staging |-> made.staging,
     fs      |-> bot_put_back(f,
                    IF made.raised THEN made.fs
                    ELSE [made.fs EXCEPT ![RootArchive(ts)] = made.fs[ArchivePath(ts)],
                                         ![ArchivePath(ts)] = NoNode])]

\* create_backup_in_root_excluding_archives where create_backup may raise: the
\* archives of /root and the directory /root/backups are moved away (bot lines
\* 703-725), create_backup runs and its archive is moved to /root (741-751),
\* and in the finally clause every hidden thing whose place is free is moved
\* back, while one whose place is taken is removed (727-739)
bot_backup_run(f, ts, id, fails) ==
    bot_backup_made(f, ts, create_backup_run(bot_hidden(f), ts, id, fails))

\* the live trees with earlier backups: an archive in /root or none, and
\* /root/backups absent, empty or holding an archive
BackupTrees ==
    {[LiveFs(c) EXCEPT ![RootArchive(1)] = a, ![BACKUP_OUTPUT_DIR] = d[1],
                       ![ArchivePath(1)] = d[2]] :
        c \in UserCfgs, a \in {NoNode, FileNode(1)},
        d \in {<<NoNode, NoNode>>, <<DirNode, NoNode>>, <<DirNode, FileNode(2)>>}}

InitBotBackup ==
    /\ fs \in BackupTrees
    /\ pc = "backup"
    /\ rDry = TRUE
    /\ tars = <<>>
    /\ clock = 1
    /\ ops = 0
    /\ rPath = <<>>
    /\ upload = NoUpload
    /\ staging = NoStaging
    /\ manifest = NoManifest
    /\ report = NoReport
    /\ purgeList = <<>>
    /\ outcome = "none"
    /\ preFs = fs
    /\ touched = {}
    /\ purgeLog = <<>>
    /\ delFailed = {}
    /\ copyFailed = {}
    /\ tried = {}
    /\ NoUnit

\* one call of create_backup_in_root_excluding_archives
BotBackup ==
    /\ pc = "backup"
    /\ \E ts \in clock..MaxTime, fails \in {"none", "save", "archive"} :
          LET r == bot_backup_run(fs, ts, 3, fails)
          IN  /\ fs' = r.fs
              /\ staging' = r.staging
              /\ outcome' = IF r.raised THEN "raised" ELSE "returned"
              /\ clock' = ts
    /\ pc' = "backed"
    /\ UNCHANGED <<tars, ops, rPath, rDry, upload, manifest, report, purgeList, preFs,
                   touched, purgeLog, delFailed, copyFailed, tried, unitVars>>

NextBotBackup == BotBackup

SpecBotBackup == InitBotBackup /\ [][NextBotBackup]_vars

(* ---------------- the event loop of the bot ---------------- *)

\* the updates that wait for their turn at most
MaxPending == 1

\* config.py: the Telegram id of the administrator
ADMIN_ID == 1

\* the administrator of config.py, and somebody else
Users == {ADMIN_ID, ADMIN_ID + 1}

\* the slash commands main registers, and the callback data of the buttons
Commands == {"/backup_now", "/backup_list", "/backup_restore", "/backup_restore_apply"}

Callbacks == {"backup_create", "backup_list", "restore_dry_", "restore_apply_",
              "backup_delete_confirm_"}

\* an update: who sent it, which entry point it names, and whether the archive
\* it names is found
Updates == [sender : Users, entry : Commands \cup Callbacks, found : BOOLEAN]

\* what the entry point leads to: create_backup_in_root_excluding_archives,
\* apply_restore with dry_run True or False, os.remove of an archive, or a list
operation(entry) ==
    CASE entry \in {"/backup_now", "backup_create"} -> "backup"
      [] entry \in {"/backup_restore", "restore_dry_"} -> "dry"
      [] entry \in {"/backup_restore_apply", "restore_apply_"} -> "apply"
      [] entry = "backup_delete_confirm_" -> "delete"
      [] OTHER -> "list"

Destructive == {"backup", "apply", "delete"}

\* `if update.effective_user.id != ADMIN_ID: return`, the first line of every
\* command handler and of perform_backup_and_send
admin_check(sender) == sender = ADMIN_ID

button_handler_admits_anyone(sender) == TRUE

\* button_handler: `if q.from_user.id != ADMIN_ID:` answers and returns
button_handler_admits(sender) == sender = ADMIN_ID

every_call_awaited(call) == TRUE

\* the calls the handlers and the monitoring task make with `await`; the calls
\* of create_backup_in_root_excluding_archives, apply_restore and os.remove
\* are plain calls
awaited(call) == call \in {"answer", "reply", "send_message", "sleep"}

\* the handler or the task stops at an await and the loop is free
Await(at) == [loopSt EXCEPT !.hpc = at, !.holder = "none"]

\* the handler has returned
Finish == [loopSt EXCEPT !.cur = <<>>, !.hpc = "idle", !.holder = "none"]

\* a step of the monitoring task, noted when an operation is in flight
MonitorAt(at, who) ==
    [loopSt EXCEPT !.mpc = at, !.holder = who,
                   !.intruded = @ \/ loopSt.hpc = "in_op"]

LoopFrame ==
    UNCHANGED <<fs, tars, clock, ops, pc, rPath, rDry, upload, staging, manifest, report,
                purgeList, outcome, preFs, touched, purgeLog, delFailed, copyFailed,
                tried, rootsArg, unreadable, pki, text, loaded, crlRet, user_data,
                ovpn, keyRun>>

InitLoop ==
    /\ pc = "bot"
    /\ fs = LiveFs([n \in UserNodes |-> NoNode])
    /\ rDry = TRUE
    /\ tars = <<>>
    /\ clock = 1
    /\ ops = 0
    /\ rPath = <<>>
    /\ upload = NoUpload
    /\ staging = NoStaging
    /\ manifest = NoManifest
    /\ report = NoReport
    /\ purgeList = <<>>
    /\ outcome = "none"
    /\ preFs = fs
    /\ touched = {}
    /\ purgeLog = <<>>
    /\ delFailed = {}
    /\ copyFailed = {}
    /\ tried = {}
    /\ NoUnit

\* run_polling: an update arrives and waits for its turn
Deliver ==
    /\ pc = "bot"
    /\ Len(loopSt.pending) < MaxPending
    /\ \E u \in Updates : loopSt' = [loopSt EXCEPT !.pending = Append(@, u)]
    /\ LoopFrame

\* the application, built without concurrent_updates and with blocking
\* handlers, takes the next update when the handler of the last one has returned
Dispatch ==
    /\ pc = "bot"
    /\ loopSt.holder = "none"
    /\ loopSt.cur = <<>>
    /\ loopSt.pending # <<>>
    /\ loopSt' = [loopSt EXCEPT !.cur = <<Head(loopSt.pending)>>,
                                !.pending = Tail(loopSt.pending),
                                !.hpc = "check", !.holder = "handler"]
    /\ LoopFrame

\* the first lines of the handler: a command handler returns when the sender
\* is not the administrator; button_handler answers the query either way
AdminCheck ==
    /\ loopSt.hpc = "check"
    /\ loopSt.holder = "handler"
    /\ LET u == loopSt.cur[1]
       IN  loopSt' = IF u.entry \in Commands
                     THEN IF admin_check(u.sender)
                          THEN [loopSt EXCEPT !.hpc = "route"] ELSE Finish
                     ELSE IF button_handler_admits(u.sender)
                          THEN Await("answer") ELSE Await("denied")
    /\ LoopFrame

\* an awaited call of the handler has completed
Resume ==
    /\ loopSt.holder = "none"
    /\ loopSt.hpc \in {"answer", "denied", "reply"}
    /\ loopSt' = IF loopSt.hpc = "answer"
                 THEN [loopSt EXCEPT !.hpc = "route", !.holder = "handler"]
                 ELSE Finish
    /\ LoopFrame

\* the handler reaches its operation: cmd_backup_now, cmd_backup_restore,
\* cmd_backup_restore_apply, perform_backup_and_send, restore_dry_run,
\* restore_apply, backup_delete_apply
Route ==
    /\ loopSt.hpc = "route"
    /\ loopSt.holder = "handler"
    /\ LET u  == loopSt.cur[1]
           op == operation(u.entry)
       IN  loopSt' =
             IF u.entry = "backup_create" /\ ~admin_check(u.sender) THEN Finish
             ELSE IF op = "list" \/ (op \in {"dry", "apply", "delete"} /\ ~u.found)
             THEN Await("reply")
             ELSE [loopSt EXCEPT !.hpc = "in_op",
                                 !.holder = IF awaited("operation") THEN "none"
                                            ELSE "handler"]
    /\ LoopFrame

\* the operation returns or raises; the handler awaits its reply, or the
\* exception leaves a command handler that does not catch it
OpEnd ==
    /\ loopSt.hpc = "in_op"
    /\ loopSt.holder \in {"handler", "none"}
    /\ \E raised \in BOOLEAN :
          loopSt' = IF raised /\ loopSt.cur[1].entry \in {"/backup_restore",
                                                         "/backup_restore_apply"}
                    THEN Finish ELSE Await("reply")
    /\ LoopFrame

\* check_new_connections: the sleep is over and a pass begins
MonitorWake ==
    /\ pc = "bot"
    /\ loopSt.mpc = "sleep"
    /\ loopSt.holder = "none"
    /\ loopSt' = MonitorAt("pass", "monitor")
    /\ LoopFrame

\* check_new_connections: the pass sends an alert and waits for it
MonitorAlert ==
    /\ loopSt.mpc = "pass"
    /\ loopSt.holder = "monitor"
    /\ loopSt' = MonitorAt("alert", "none")
    /\ LoopFrame

\* check_new_connections: the alert is sent and the pass goes on
MonitorResume ==
    /\ loopSt.mpc = "alert"
    /\ loopSt.holder = "none"
    /\ loopSt' = MonitorAt("sent", "monitor")
    /\ LoopFrame

\* check_new_connections: the pass ends in asyncio.sleep(10)
MonitorSleep ==
    /\ loopSt.mpc \in {"pass", "sent"}
    /\ loopSt.holder = "monitor"
    /\ loopSt' = MonitorAt("sleep", "none")
    /\ LoopFrame

NextLoop ==
    \/ Deliver
    \/ Dispatch
    \/ AdminCheck
    \/ Resume
    \/ Route
    \/ OpEnd
    \/ MonitorWake
    \/ MonitorAlert
    \/ MonitorResume
    \/ MonitorSleep

SpecLoop == InitLoop /\ [][NextLoop]_vars

(* ---------------- the key-creation dialog of the bot ---------------- *)

\* the updates one run of the dialog is followed for
MaxUpdates == 5

\* the largest quantity the administrator asks for
MaxBatch == 3

\* line 1434: more than 100 keys are refused
MaxQuantity == 100

RECURSIVE DecimalFrom(_, _, _)
\* the number the decimal digits of s from position i on stand for, after acc;
\* None when something else than a digit is among them
DecimalFrom(s, i, acc) ==
    IF i > Len(s) THEN <<acc>>
    ELSE LET ds == {d \in 0..9 : SubSeq("0123456789", d + 1, d + 1) = SubSeq(s, i, i)}
         IN  IF ds = {} THEN None
             ELSE DecimalFrom(s, i + 1, acc * 10 + (CHOOSE d \in ds : TRUE))

\* lines 1416-1420 and 1429-1433: int(text.strip()), with the default when
\* int raises ValueError or the number is below 1
number_or(t, default) ==
    LET s == strip(t)
        n == IF s = "" THEN None
             ELSE IF SubSeq(s, 1, 1) = "-"
             THEN (IF Len(s) = 1 \/ DecimalFrom(s, 2, 0) = None THEN None
                   ELSE <<0 - DecimalFrom(s, 2, 0)[1]>>)
             ELSE DecimalFrom(s, 1, 0)
    IN  IF n = None \/ n[1] < 1 THEN default ELSE n[1]

\* lines 1441-1445: base, base2, base3, ...
key_names(base, qty) ==
    IF qty = 1 THEN <<base>>
    ELSE <<base>> \o [i \in 1..(qty - 1) |-> base \o ToString(i + 1)]

\* line 1448: the names that have a .ovpn file in KEYS_DIR
collisions(names, files) == SelectSeq(names, LAMBDA n : n \in files)

\* a handler that creates the keys whose names are free
batch_of_free_names(names, files) == SelectSeq(names, LAMBDA n : n \notin files)

\* lines 1449-1459: with a collision the handler returns before the loop; else
\* the loop goes over every name
batch(names, files) == IF collisions(names, files) # <<>> THEN <<>> ELSE names

\* how the creation of one key may go: easyrsa fails, generate_ovpn_for_client
\* raises before it writes the file, or the key and its .ovpn file are made
KeyOutcomes == {"ok", "easyrsa", "ovpn"}

\* what does not belong to the dialog's step: the handler returns as it came
Asked(ud, files, run) == [user_data |-> ud, ovpn |-> files, keyRun |-> run]

\* create_key_handler, lines 1397-1495, for the message txt; how[i] is the way
\* the creation of the i-th name goes
create_key_handler(ud, files, run, txt, how) ==
    IF ud.await_key_name
    THEN IF strip(txt) = "" \/ strip(txt) \in files
         THEN Asked(ud, files, NoKeyRun)
         ELSE Asked([ud EXCEPT !.new_key_name = <<strip(txt)>>, !.await_key_name = FALSE,
                                !.await_key_expiry = TRUE],
                    files, [NoKeyRun EXCEPT !.entered = <<txt>>])
    ELSE IF ud.await_key_expiry
    THEN Asked([ud EXCEPT !.new_key_expiry = <<number_or(txt, 30)>>,
                           !.await_key_expiry = FALSE, !.await_key_quantity = TRUE],
               files, run)
    ELSE IF ud.await_key_quantity
    THEN LET qty    == number_or(txt, 1)
             names  == key_names(ud.new_key_name[1], qty)
             todo   == batch(names, files)
             made   == SelectSeq(todo, LAMBDA n : \E i \in 1..Len(names) :
                                                      names[i] = n /\ how[i] = "ok")
         IN  IF qty > MaxQuantity THEN Asked(ud, files, run)
             ELSE Asked(NoUserData,
                        files \cup Range(made),
                        [entered |-> run.entered, qty |-> qty, names |-> names,
                         collisions |-> collisions(names, files), invoked |-> todo,
                         created |-> made,
                         errors |-> SelectSeq(todo, LAMBDA n : n \notin Range(made))])
    ELSE Asked(ud, files, NoKeyRun)

\* the messages the administrator sends
Texts == {"a", " a ", "", "1", ToString(MaxBatch), "x", "101"}

\* the bot is running; some clients have their .ovpn files
InitKeys ==
    /\ ovpn \in SUBSET {"a", "a2", "a" \o ToString(MaxBatch)}
    /\ user_data = NoUserData
    /\ keyRun = NoKeyRun
    /\ loopSt = NoLoop
    /\ pc = "bot"
    /\ fs = LiveFs([n \in UserNodes |-> NoNode])
    /\ rDry = TRUE
    /\ tars = <<>>
    /\ clock = 1
    /\ ops = 0
    /\ rPath = <<>>
    /\ upload = NoUpload
    /\ staging = NoStaging
    /\ manifest = NoManifest
    /\ report = NoReport
    /\ purgeList = <<>>
    /\ outcome = "none"
    /\ preFs = fs
    /\ touched = {}
    /\ purgeLog = <<>>
    /\ delFailed = {}
    /\ copyFailed = {}
    /\ tried = {}
    /\ rootsArg = <<>>
    /\ unreadable = {}
    /\ pki = NoPki
    /\ text = <<>>
    /\ loaded = <<>>
    /\ crlRet = NoCrlRet

\* button_handler, data == 'create_key': the name is asked for
PressCreateKey ==
    /\ pc = "bot"
    /\ ops < MaxUpdates
    /\ user_data' = [user_data EXCEPT !.await_key_name = TRUE]
    /\ keyRun' = NoKeyRun
    /\ ops' = ops + 1
    /\ UNCHANGED <<fs, tars, clock, pc, rPath, rDry, upload, staging, manifest, report,
                   purgeList, outcome, preFs, touched, purgeLog, delFailed, copyFailed,
                   tried, rootsArg, unreadable, pki, text, loaded, crlRet, ovpn, loopSt>>

\* universal_text_handler: a text message goes to create_key_handler while the
\* dialog waits for a name, a term or a quantity
TextMessage ==
    /\ pc = "bot"
    /\ ops < MaxUpdates
    /\ \E txt \in Texts, how \in [1..MaxBatch -> KeyOutcomes] :
          /\ (~user_data.await_key_quantity \/ user_data.await_key_name
              \/ user_data.await_key_expiry) => \A i \in 1..MaxBatch : how[i] = "ok"
          /\ LET r == create_key_handler(user_data, ovpn, keyRun, txt, how)
             IN  /\ user_data' = r.user_data
                 /\ ovpn' = r.ovpn
                 /\ keyRun' = r.keyRun
    /\ ops' = ops + 1
    /\ UNCHANGED <<fs, tars, clock, pc, rPath, rDry, upload, staging, manifest, report,
                   purgeList, outcome, preFs, touched, purgeLog, delFailed, copyFailed,
                   tried, rootsArg, unreadable, pki, text, loaded, crlRet, loopSt>>

NextKeys ==
    \/ PressCreateKey
    \/ TextMessage

SpecKeys == InitKeys /\ [][NextKeys]_vars

(* ---------------- properties ---------------- *)

\* what the archive of the running call held when the call began
CalledArchive == ArchiveAt(preFs, rPath, upload)

\* C1 (dry-run purity): when apply_restore called with dry_run set has ended, the
\* live filesystem is as it was when the call began, nothing has been deleted,
\* copied or written, neither CRL regeneration nor the restart has been
\* attempted, and a returned report has crl_action and service_restart unset and
\* an empty error list.
C1_DryRunPurity ==
    (pc = "done" /\ rDry) =>
        /\ fs = preFs
        /\ touched = {}
        /\ purgeLog = <<>>
        /\ tried = {}
        /\ outcome = "returned" =>
              /\ report.crl_action = "None"
              /\ report.service_restart = "None"
              /\ report.errors = <<>>

\* C2 (staging cleanup): whenever apply_restore has returned or raised, the
\* staging directory no longer exists.
C2_StagingRemoved == pc = "done" => ~staging.exists

\* an exit of apply_restore by an exception out of the copy phase, after a purge
C2_ExitReached == pc = "done" /\ outcome = "raised" /\ purgeLog # <<>>

\* C3 (hard failures only before mutation): an apply_restore that raises has not
\* deleted, created or overwritten anything on the live filesystem; so a call
\* that has changed something ends by returning its report.
C3_RaiseBeforeMutation ==
    (pc = "done" /\ outcome = "raised") => (touched = {} /\ fs = preFs)

\* C4 (restore convergence): when the copy step of a non-dry-run restore of an
\* archive made by create_backup completes and no deletion or copy failed,
\* recomputing the diff yields extra = missing = changed = [].
C4_Convergence ==
    (pc = "crl" /\ ~rDry /\ rPath # ForeignPath /\ delFailed = {} /\ copyFailed = {}) =>
        compute_diff(manifest, fs, unreadable) = [extra |-> <<>>, missing |-> <<>>, changed |-> <<>>]

\* the archive files of a filesystem
ArchiveFiles(f) == {n \in Nodes : f[n].kind = "file" /\ f[n].data < 0}

\* C5 (archive lifecycle): no step changes or removes an existing archive file,
\* except the operator's delete action.
C5_ArchiveLifecycle ==
    [][(\A n \in ArchiveFiles(fs) : fs'[n] = fs[n]) \/ DeleteArchive]_vars

\* a non-dry-run restore has ended and the archive it restored is gone
C5_OwnArchivePurged ==
    pc = "done" /\ ~rDry /\ rPath # ForeignPath /\ isfile(preFs, rPath) /\ ~exists(fs, rPath)

\* a is a proper ancestor of b, as the paths are written
Ancestor(a, b) == Len(a) < Len(b) /\ IsPrefix(a, b)

C7_NestedPurge ==
    LET chain == <<ChainF, ChainC, ChainB, ChainA>>
    IN  (/\ pc = "done" /\ outcome = "returned" /\ ~rDry /\ delFailed = {}
         /\ isfile(preFs, ChainF)
         /\ \A k \in 1..3 : isdir(preFs, chain[k + 1])
         /\ \A k \in 1..4 : CalledArchive.tree[chain[k]].kind = "none"
         /\ \A i \in 1..Len(manifest.files) :
               ~IsPrefix(ChainA, normpath(manifest.files[i].path)))
        => /\ \A k \in 1..4 : ~exists(fs, chain[k])
           /\ \E i1, i2, i3, i4 \in 1..Len(purgeLog) :
                 /\ i1 < i2 /\ i2 < i3 /\ i3 < i4
                 /\ purgeLog[i1].path = ChainF /\ purgeLog[i2].path = ChainC
                 /\ purgeLog[i3].path = ChainB /\ purgeLog[i4].path = ChainA

\* the normalized path n is a configured root or lies under one
UnderRoot(n) == \E i \in 1..Len(BACKUP_ROOTS) : IsPrefix(BACKUP_ROOTS[i], n)

\* C8 (directory scope guard): purge_extras removes recursively only directories
\* that are a configured root or lie under one, and every directory outside the
\* configured roots is still in place.
C8_ScopeGuard ==
    /\ \A i \in 1..Len(purgeLog) :
          purgeLog[i].act = "rmtree" => UnderRoot(normpath(purgeLog[i].path))
    /\ \A n \in Nodes : (isdir(preFs, n) /\ ~UnderRoot(n)) => isdir(fs, n)

\* C9 (per-item failures in the report): the report a non-dry-run restore of a
\* backup archive returns holds, in its error list, an entry for every
\* deletion and every copy that failed.
C9_FailuresReported ==
    (pc = "done" /\ outcome = "returned" /\ ~rDry /\ rPath # ForeignPath) =>
        \A p \in delFailed \cup copyFailed :
            \E i \in 1..Len(report.errors) : report.errors[i].path = p

\* C10 (missing manifest): a call whose archive unpacks without a manifest
\* entry has ended by raising, for either value of dry_run, with the live
\* filesystem untouched, no CRL regeneration or restart attempted and the
\* staging directory removed.
C10_MissingManifest ==
    (pc # "idle" /\ CalledArchive.readable /\ ~CalledArchive.hasManifest) =>
        /\ pc = "done"
        /\ outcome = "raised"
        /\ fs = preFs
        /\ touched = {}
        /\ tried = {}
        /\ ~staging.exists

(* ---------------- properties of build_manifest and compute_diff ---------------- *)

\* C11 (idempotent diff): compute_diff of the manifest build_manifest made of a
\* list of roots, on the filesystem as it was when the manifest was made, gives
\* extra = missing = changed = [], whatever the roots are.
C11_IdempotentDiff ==
    (/\ pc = "diffed" /\ fs = preFs /\ unreadable = {}
     /\ manifest = build_manifest(preFs, rootsArg))
        => report.diff = [extra |-> <<>>, missing |-> <<>>, changed |-> <<>>]

RecordedPaths(m) == {m.files[i].path : i \in 1..Len(m.files)}

\* the regular files of f below one of the roots rts that no exclusion hides
Captured(f, rts) ==
    {n \in Files(f) :
        \E i \in 1..Len(rts) :
            LET real == normpath(rts[i])
            IN  /\ IsPrefix(real, n) /\ n # real /\ exists(f, real)
                /\ \A k \in (Len(real) + 1)..Len(n) : ~is_excluded(SubSeq(n, 1, k))}

\* C12 (three-way classification): extra names exactly the non-excluded regular
\* files under the manifest's roots that have no record, missing exactly the
\* recorded paths that are not a file now, changed exactly the recorded paths
\* that are a file now with another digest (or none to be had); no path is in
\* two lists.
C12_Classification ==
    pc = "diffed" =>
        LET d   == report.diff
            rec == RecordedPaths(manifest)
        IN  /\ {normpath(p) : p \in Range(d.extra)}
                  = {n \in Captured(fs, manifest.roots) : \A r \in rec : normpath(r) # n}
            /\ Range(d.missing) = {p \in rec : ~isfile(fs, p)}
            /\ Range(d.changed)
                  = {p \in rec : /\ isfile(fs, p)
                                 /\ \/ normpath(p) \in unreadable
                                    \/ sha256(Lookup(fs, p).data) # Recorded(manifest, p).sha256}
            /\ Range(d.extra) \cap Range(d.missing) = {}
            /\ Range(d.extra) \cap Range(d.changed) = {}
            /\ Range(d.missing) \cap Range(d.changed) = {}

\* C13 (digest failure counts as change): every path recorded and present whose
\* digest cannot be computed is in changed, and every other path is classified
\* as it is when all files can be read.
C13_DigestFailure ==
    pc = "diffed" =>
        LET d    == report.diff
            d0   == compute_diff(manifest, fs, {})
            both == RecordedPaths(manifest) \cap IterAll(fs, manifest.roots)
        IN  /\ \A p \in both : normpath(p) \in unreadable => p \in Range(d.changed)
            /\ d.extra = d0.extra
            /\ d.missing = d0.missing
            /\ \A p \in both : normpath(p) \notin unreadable =>
                  (p \in Range(d.changed) <=> p \in Range(d0.changed))

\* a path is in changed although its content has the recorded digest
C13_UnreadableChanged ==
    /\ pc = "diffed"
    /\ \E i \in 1..Len(report.diff.changed) :
          LET p == report.diff.changed[i]
          IN  /\ normpath(p) \in unreadable
              /\ sha256(Lookup(fs, p).data) = Recorded(manifest, p).sha256

\* the list is in strictly ascending order of the path strings
Ascending(list) ==
    \A i \in 1..(Len(list) - 1) : StrLess(PathStr(list[i]), PathStr(list[i + 1]))

\* C14 (deterministic diff order): extra, missing and changed are each in
\* ascending order of path and hold no path twice.
C14_DiffOrder ==
    pc = "diffed" =>
        /\ Ascending(report.diff.extra)
        /\ Ascending(report.diff.missing)
        /\ Ascending(report.diff.changed)

\* a manifest that records a path twice gave a changed list of two paths
C14_TwoChanged ==
    /\ pc = "diffed"
    /\ Len(report.diff.changed) >= 2
    /\ Len(manifest.files) > Cardinality(RecordedPaths(manifest))

EndsInExcludedSuffix(p) == \E suf \in EXCLUDE_SUFFIXES : EndsWith(PathStr(p), suf)

\* C15 (suffix exclusion): no file record of a manifest build_manifest made, and
\* no entry of extra, missing or changed, is a path that ends in an excluded
\* suffix.
C15_SuffixExclusion ==
    /\ (pc # "build" /\ manifest = build_manifest(preFs, rootsArg)) =>
          \A p \in RecordedPaths(manifest) : ~EndsInExcludedSuffix(p)
    /\ pc = "diffed" =>
          \A p \in Range(report.diff.extra) \cup Range(report.diff.missing)
                   \cup Range(report.diff.changed) : ~EndsInExcludedSuffix(p)

(* ---------------- properties of the manifest ---------------- *)

\* the lines of index.txt that give a record, as their tokens
RecordLines(lines) ==
    SelectSeq([i \in 1..Len(lines) |-> split(lines[i])], LAMBDA t : Len(t) >= 5)

\* C16 (CA index parsing): the line V 251231000000Z 01 unused /CN=alice alone
\* gives the one client record cn = alice, status = V, serial = 01, expiry_raw =
\* 251231000000Z; and every line of five tokens gives a record whose serial is
\* the third token and whose cn is the CN= segment of the last token.
C16_IndexParsing ==
    (pc = "packed" /\ pki.index # None) =>
        LET clients == manifest.openvpn_pki.clients
            toks    == RecordLines(pki.index[1])
        IN  /\ pki.index[1] = <<"V  251231000000Z    01  unused  /CN=alice">> =>
                  clients = << [cn |-> "alice", status |-> "V", serial |-> "01",
                                expiry_raw |-> "251231000000Z"] >>
            /\ Len(clients) = Len(toks)
            /\ \A i \in 1..Len(toks) :
                  Len(toks[i]) = 5 =>
                      /\ clients[i].serial = toks[i][3]
                      /\ subject_cn(toks[i][5]) # "" => clients[i].cn = subject_cn(toks[i][5])

\* C17 (manifest round trip): the manifest read back from the archive equals,
\* field for field, the manifest build_manifest made in create_backup.
C17_RoundTrip == pc = "loaded" => loaded = manifest

\* a manifest with files, clients, a CA directory and no serial was read back
C17_LoadedFull ==
    /\ pc = "loaded"
    /\ Len(manifest.files) > 0
    /\ Len(manifest.openvpn_pki.clients) > 0
    /\ manifest.openvpn_pki.serial = None
    /\ manifest.openvpn_pki.pki_root # None

(* ---------------- properties of the CRL regeneration ---------------- *)

\* C18 (CRL preconditions): when index.txt, ca.key or the easyrsa script does
\* not exist, regenerate_crl_if_possible returns (False, message) and has run no
\* command: no easyrsa, no copy, no chmod, and the filesystem is as it was.
C18_Preconditions ==
    (pc = "returned" /\ (pki.index = None \/ ~pki.ca_key \/ ~pki.easyrsa)) =>
        /\ ~crlRet.raised
        /\ ~crlRet.ok
        /\ crlRet.msg # ""
        /\ crlRet.did = <<>>
        /\ fs = preFs

\* the call returned with only ca.key missing
C18_KeyMissing ==
    /\ pc = "returned"
    /\ pki.index # None /\ pki.easyrsa /\ ~pki.ca_key
    /\ crlRet.msg = "PKI incomplete"

\* C19 (CRL regeneration never raises): every call returns a pair and lets no
\* exception out; when easyrsa, the copy or the chmod failed the pair is
\* (False, the error text).
C19_NeverRaises ==
    pc = "returned" =>
        /\ ~crlRet.raised
        /\ crlRet.msg # ""
        /\ (\E i \in 1..Len(crlRet.did) : ~crlRet.did[i].ok) =>
              (~crlRet.ok /\ crlRet.msg = "CRL regen failed")

\* the call returned after a copy that failed
C19_CopyFailed ==
    /\ pc = "returned"
    /\ \E i \in 1..Len(crlRet.did) : crlRet.did[i] = Did("copy", FALSE)

\* the messages of a CRL regeneration that did not succeed
CrlFailures == {"AUTO_REGEN_CRL disabled", "PKI incomplete", "CRL regen failed"}

\* C20 (CRL failure is not fatal to restore): once the regeneration has been
\* called its message is in the report's crl_action; a restore whose
\* regeneration did not succeed goes on to the service restart and returns its
\* report.
C20_CrlNotFatal ==
    /\ (pc = "restart" /\ ~rDry) => report.crl_action \in CrlFailures \cup {"CRL regenerated."}
    /\ (pc = "done" /\ ~rDry /\ "crl" \in tried) =>
          /\ outcome = "returned"
          /\ "restart" \in tried
          /\ report.crl_action \in CrlFailures \cup {"CRL regenerated."}

\* a restore returned its report after a regeneration that failed
C20_ReturnedAfterFailure ==
    /\ pc = "done" /\ ~rDry /\ outcome = "returned"
    /\ report.crl_action = "CRL regen failed"
    /\ "restart" \in tried

(* ---------------- properties of the restart and of the phases ---------------- *)

\* C21 (service-restart failure is not fatal): the restart step of a non-dry-run
\* restore ends the call by returning the report and leaves the live
\* filesystem as purge and copy made it; when the command fails the report has
\* a failure status in service_restart and one more entry, the restart's, in
\* its error list; when it succeeds service_restart is OK and the error list
\* is as it was.
C21_RestartNotFatal ==
    [][(pc = "restart" /\ ~rDry) =>
          /\ pc' = "done"
          /\ outcome' = "returned"
          /\ fs' = fs
          /\ touched' = touched
          /\ IF "restart failed" \in tried'
             THEN /\ report'.service_restart = "Failed"
                  /\ report'.errors = Append(report.errors, [what |-> "restart", path |-> <<>>])
             ELSE /\ report'.service_restart = "OK"
                  /\ report'.errors = report.errors]_vars

\* a restore that deleted or wrote live paths has returned its report although
\* the restart failed
C21_ReturnedAfterFailedRestart ==
    /\ pc = "done" /\ ~rDry /\ outcome = "returned"
    /\ "restart failed" \in tried
    /\ report.service_restart = "Failed"
    /\ touched # {}
    /\ fs # preFs

(* ---------------- properties of the capture ---------------- *)

\* C22 (vanishing file during capture): when a file found by the traversal is
\* deleted by another process before build_manifest has stat-ed it, or between
\* the stat and the hashing, build_manifest still returns a manifest, and the
\* manifest has no record of that file.
C22_VanishingFile ==
    pc = "raced" =>
        /\ outcome = "returned"
        /\ \A i \in 1..Len(manifest.files) :
              exists(preFs, manifest.files[i].path) => exists(fs, manifest.files[i].path)

\* C23 (manifest path uniqueness): for every list of roots, a root named twice
\* and a root named with one of its subdirectories included, the manifest
\* build_manifest returns has at most one file record per path.
C23_PathUniqueness ==
    (pc = "built" /\ manifest = build_manifest(preFs, rootsArg)) =>
        \A i, j \in 1..Len(manifest.files) :
            manifest.files[i].path = manifest.files[j].path => i = j

\* C24 (backup staging is a scoped resource): when create_backup has ended, by
\* returning the archive path or by failing while saving the manifest or
\* while writing the archive, its staging directory no longer exists.
C24_BackupStagingScoped == pc = "backed" => ~staging.exists

\* C25 (fresh, unique restore staging): the staging directory an apply_restore
\* invocation unpacks into did not exist before the invocation, so it was
\* empty when unpacking began and is the directory of no other invocation,
\* also when a directory with the same timestamp name is there.
C25_FreshStaging ==
    pc \in {"diff", "purge", "copy", "crl", "restart"} => (staging.exists /\ ~staging.reused)

\* the phases of a run of apply_restore after the unpack, in their order
Phase == [diff |-> 1, purge |-> 2, copy |-> 3, crl |-> 4, restart |-> 5, done |-> 6]

\* C26 (restore phase order): in a non-dry-run run of apply_restore the phases
\* follow one another in the order unpack, diff, purge, copy, CRL regeneration
\* attempt, service restart attempt, done: the diff is in the report before
\* anything is deleted, deletions happen in the purge phase only, the copy
\* phase begins only when the purge has gone through its whole list, the CRL
\* regeneration is attempted only on leaving the copy phase, the restart only
\* after the CRL attempt, and the report is returned from the restart phase.
C26_PhaseOrder ==
    [][(pc \in DOMAIN Phase \ {"done"} /\ ~rDry) =>
          /\ pc' \in DOMAIN Phase /\ Phase[pc'] >= Phase[pc]
          /\ pc' = "purge" => pc \in {"diff", "purge"}
          /\ (pc' = "copy" /\ pc # "copy") => (pc \in {"diff", "purge"} /\ purgeList' = <<>>)
          /\ pc = "copy" => (purgeList = <<>> /\ purgeLog' = purgeLog)
          /\ purgeLog' # purgeLog =>
                (pc = "purge" /\ report.purge_mode = "strict" /\ report' = report
                 /\ Len(purgeLog) + Len(purgeList) = Len(report.diff.extra))
          /\ pc' = "crl" => pc = "copy"
          /\ tried' # tried => \/ (pc = "crl" /\ tried = {} /\ tried' = {"crl"})
                               \/ (pc = "restart" /\ tried = {"crl"} /\ "restart" \in tried')
          /\ pc' = "restart" => pc = "crl"
          /\ (pc' = "done" /\ outcome' = "returned") => pc = "restart"]_vars

\* a non-dry-run restore went through every phase: it purged, copied, attempted
\* the CRL regeneration and the restart, and returned
C26_AllPhases ==
    /\ pc = "done" /\ ~rDry /\ outcome = "returned"
    /\ Len(purgeLog) >= 2
    /\ tried = {"crl", "restart"}
    /\ \E n \in touched : exists(fs, n)

(* ---------------- the scope of the diff ---------------- *)

\* the trees that differ from f in one file outside every root of the list
OutsideEdits(f, roots) ==
    {[f EXCEPT ![n] = v] :
        n \in {m \in {LinkTarget, Cache, RootArchive(1)} :
                  \A i \in 1..Len(roots) : ~IsPrefix(normpath(roots[i]), m)},
        v \in {NoNode} \cup {FileNode(d) : d \in Contents}}

\* C27 (the manifest is authoritative for the diff's scope): the result of
\* compute_diff depends on the manifest and on the live file system under the
\* manifest's roots only: on a live tree that differs in a file outside all of
\* these roots, the same manifest gives the same extra, missing and changed
\* lists (the configured root list is not an input of the computation at all).
C27_ManifestScope ==
    pc = "diffed" =>
        \A f2 \in OutsideEdits(fs, manifest.roots) :
            compute_diff(manifest, f2, unreadable) = report.diff

(* ---------------- what a restore deletes and writes ---------------- *)

\* C30 (deletion is confined to the diff's extra list): in a restore that is
\* not a dry run, a live path that was there at the start and is gone after
\* the purge and the copy is a path of the diff's extra list, and strict-purge
\* mode is enabled (so with an empty extra list nothing is deleted); every
\* file the restore has created or overwritten when the copy phase has ended
\* lies under one of the manifest's roots; and the report's purge_mode is
\* "strict" exactly when strict-purge mode is enabled.
C30_DeletionConfined ==
    (~rDry /\ pc \in {"copy", "crl"}) =>
        /\ \A n \in Nodes :
              (preFs[n].kind # "none" /\ fs[n].kind = "none") =>
                  /\ STRICT_PURGE
                  /\ \E i \in 1..Len(report.diff.extra) : normpath(report.diff.extra[i]) = n
        /\ \A i \in 1..Len(purgeLog) :
              purgeLog[i].act \in {"removed", "rmtree"} =>
                  /\ STRICT_PURGE
                  /\ purgeLog[i].path \in Range(report.diff.extra)
        /\ pc = "crl" =>
              \A n \in touched :
                  fs[n].kind = "file" =>
                      \E i \in 1..Len(manifest.roots) : IsPrefix(normpath(manifest.roots[i]), n)
        /\ (report.purge_mode = "strict") = STRICT_PURGE

(* ---------------- the restore and the excluded paths ---------------- *)

\* the Exclusion Filter rejects the path itself or a directory above it
Rejected(n) == \E k \in 1..Len(n) : is_excluded(SubSeq(n, 1, k))

\* C31 (purge never touches excluded paths): in a strict-purge restore, when the
\* purge is going on or has ended, every live file that the Exclusion Filter
\* rejects (an excluded path, a path under an excluded directory, a path with
\* an excluded suffix) and that was there when the restore began is still
\* there, unchanged.
C31_PurgeSparesExcluded ==
    (~rDry /\ pc \in {"purge", "copy"}) =>
        \A n \in Nodes :
            (Rejected(n) /\ preFs[n].kind \in {"file", "link"}) => fs[n] = preFs[n]

\* the files a restore has created or overwritten
WrittenFiles == {n \in touched : fs[n].kind = "file"}

\* C32 (excluded paths are invisible to packaging and repopulation): no archive
\* written by create_backup holds a file that the Exclusion Filter rejects; and
\* when the copy phase of a non-dry-run restore of such an archive has ended
\* without a failed copy, no file it has created or overwritten is rejected by
\* the filter, and the files written are exactly the paths the manifest records.
C32_ExcludedInvisible ==
    /\ \A t \in 1..Len(tars) :
          \A n \in Nodes : tars[t].tree[n].kind \in {"file", "link"} => ~Rejected(n)
    /\ (~rDry /\ pc = "crl" /\ rPath # ForeignPath /\ ~staging.reused /\ copyFailed = {}) =>
          /\ \A n \in WrittenFiles : ~Rejected(n)
          /\ WrittenFiles = {normpath(manifest.files[i].path) : i \in 1..Len(manifest.files)}

(* ---------------- the scope of the manifest ---------------- *)

FullLines(lines) == SelectSeq(lines, LAMBDA l : Len(split(strip(l))) >= 5)

\* C34 (PKI capture is best-effort): whichever of index.txt and serial cannot be
\* read, build_manifest returns; the manifest it returns has the file records
\* of the walk of its roots; and when index.txt can be read its client records
\* are those of the lines with at least five fields, every one of them, in the
\* order of the lines.
C34_PkiBestEffort ==
    pc = "captured" =>
        /\ outcome = "returned"
        /\ manifest.files = build_manifest(fs, rootsArg).files
        /\ (pki.index # None /\ IndexPath \notin unreadable) =>
              /\ Len(manifest.openvpn_pki.clients) = Len(FullLines(pki.index[1]))
              /\ \A i \in 1..Len(manifest.openvpn_pki.clients) :
                    manifest.openvpn_pki.clients[i]
                        = client_record(split(strip(FullLines(pki.index[1])[i])))

(* ---------------- what a successful CRL regeneration has done ---------------- *)

\* C35 (CRL success means the service sees the new list): when
\* regenerate_crl_if_possible has returned ok = True, easyrsa gen-crl has
\* succeeded, the list has been copied to /etc/openvpn/crl.pem, which now
\* holds it, and the chmod to 0644 has succeeded.
C35_CrlSuccess ==
    (pc = "returned" /\ crlRet.ok) =>
        /\ crlRet.did = <<Did("easyrsa", TRUE), Did("copy", TRUE), Did("chmod", TRUE)>>
        /\ fs[CrlDst] = FileNode(0)

(* ---------------- the diff of the report ---------------- *)

\* the live tree when compute_diff ran at line 304: as the call found it, with
\* what the unpacking of the archive wrote outside the staging directory
FsAtDiff == extract_outside(preFs, CalledArchive.outside, FALSE).fs

\* C36 (the dry run predicts the apply): in every report apply_restore has
\* made, for a dry run and for a run that is not one, the diff is
\* compute_diff of the manifest on the live tree as it was before the purge
\* and the copy; so for the same archive and the same live tree both runs
\* report the same diff, and the diff of the tree that results is not in it.
C36_DryRunPredicts ==
    report.purge_mode # "" =>
        /\ report.diff = compute_diff(manifest, FsAtDiff, {})
        /\ report.dry_run = rDry
        /\ rDry => fs = FsAtDiff

\* a restore that is not a dry run has returned; it purged and copied, and the
\* diff of the tree it leaves is another one than the diff it reports
C36_AppliedAndReported ==
    /\ pc = "done" /\ outcome = "returned" /\ ~rDry
    /\ report.diff.extra # <<>>
    /\ \E n \in touched : fs[n] # FsAtDiff[n]
    /\ compute_diff(manifest, fs, {}) # report.diff

(* ---------------- the bot's backup and the earlier backups ---------------- *)

\* C37 (the bot's backup preserves earlier backups): when
\* create_backup_in_root_excluding_archives has returned or raised, every
\* archive of /root and every file of /root/backups that was there before the
\* call is at its path again, with the content it had.
C37_EarlierBackupsKept ==
    pc = "backed" =>
        \A n \in Nodes :
            (/\ preFs[n].kind = "file"
             /\ \/ n \in RootArchiveGlob(preFs)
                \/ (IsPrefix(BACKUP_OUTPUT_DIR, n) /\ n # BACKUP_OUTPUT_DIR))
                => fs[n] = preFs[n]

(* ---------------- the event loop of the bot ---------------- *)

\* C38 (the caller serializes backup and restore): while a backup, a restore
\* or a deletion is in flight the handler that called it holds the event loop,
\* no other handler has an update in hand, and no step of the monitoring task
\* has ever run between the start and the end of such an operation.
C38_OperationsSerialized ==
    /\ ~loopSt.intruded
    /\ loopSt.hpc = "in_op" => (loopSt.holder = "handler" /\ Len(loopSt.cur) = 1)

\* an operation is in flight while another update waits and the monitoring
\* task is due
C38_OthersWaiting ==
    /\ loopSt.hpc = "in_op"
    /\ loopSt.pending # <<>>
    /\ loopSt.mpc \in {"sleep", "alert"}

\* C39 (destructive operations are admin-only): whenever a backup creation, a
\* restore that is not a dry run or a backup deletion is being executed, the
\* update being handled was sent by the configured administrator.
C39_AdminOnly ==
    (loopSt.hpc = "in_op" /\ operation(loopSt.cur[1].entry) \in Destructive)
        => loopSt.cur[1].sender = ADMIN_ID

\* the administrator's restore is being applied while somebody else's request
\* for the same waits
C39_AdminApplies ==
    /\ loopSt.hpc = "in_op"
    /\ loopSt.cur[1].entry = "restore_apply_"
    /\ loopSt.cur[1].sender = ADMIN_ID
    /\ \E i \in 1..Len(loopSt.pending) :
          /\ loopSt.pending[i].sender # ADMIN_ID
          /\ loopSt.pending[i].entry = "restore_apply_"

(* ---------------- properties of the key-creation dialog ---------------- *)

\* C28 (bulk key creation is all-or-nothing on name conflict): when the
\* quantity has been answered, for quantity 1 the one name is the name as it
\* was entered (the text of the message without surrounding white space), and
\* for quantity n > 1 the names are base, base2, ..., base<n>; if one of these
\* names has a .ovpn file, the CA tool was invoked for no name, no key and no
\* .ovpn file was made, and the dialog is reset, so that the next text is not
\* taken as an answer.
C28_BulkAllOrNothing ==
    keyRun.qty > 0 =>
        /\ Len(keyRun.names) = keyRun.qty
        /\ keyRun.names[1] = strip(keyRun.entered[1])
        /\ \A i \in 2..keyRun.qty : keyRun.names[i] = keyRun.names[1] \o ToString(i)
        /\ (\E i \in 1..keyRun.qty : keyRun.names[i] \in ovpn \ Range(keyRun.created)) =>
              /\ keyRun.invoked = <<>>
              /\ keyRun.created = <<>>
              /\ user_data = NoUserData

\* several keys were asked for, the second name is taken and the first is free
C28_PartialConflict ==
    /\ keyRun.qty > 1
    /\ keyRun.names[2] \in ovpn
    /\ keyRun.names[1] \notin ovpn
    /\ keyRun.invoked = <<>>

\* the staged files and links copy_from_staging has to copy: those below the
\* staged subtree of one of the manifest's roots
StagedFiles(tree, roots) ==
    {n \in Nodes : /\ tree[n].kind \in {"file", "link"}
                   /\ \E i \in 1..Len(roots) :
                         /\ Lookup(tree, ArcKey(roots[i], <<>>)).kind = "dir"
                         /\ IsPrefix(ArcKey(roots[i], <<>>), n)}

\* C29 (per-item failures never abort the batch): when the deletion of a path
\* of the extra list has failed, purge_extras has still gone through every
\* path of the list; when the copy of a staged file has failed,
\* copy_from_staging has still attempted every staged file of every root's
\* subtree; and in both cases the restore goes on with the following phases
\* and returns its report.
C29_BatchContinues ==
    (~rDry /\ pc \in {"copy", "crl", "restart", "done"} /\ (delFailed # {} \/ copyFailed # {})) =>
        /\ Len(purgeLog) = Len(report.diff.extra)
        /\ (copyFailed # {} /\ pc # "copy") =>
              \A n \in StagedFiles(CalledArchive.tree, manifest.roots) :
                  \/ n \in copyFailed \/ n \in touched
                  \/ join(n, basename(n)) \in touched
                  \/ (islink(preFs, n) /\ LinkTarget \in touched)
        /\ pc = "done" => outcome = "returned"

====
